---- MODULE Spec2Model ----
(***************************************************************************)
(* Hardware detection of llmfit (src/src/hardware.rs): SystemSpecs::detect, *)
(* the GPU probe chain of detect_gpu, the available-memory fallback, the    *)
(* Windows device parsers and the VRAM estimation table.                    *)
(*                                                                          *)
(* Representation of numbers.                                               *)
(*   - Byte counts (u64) are counted in MiB: a reading of m stands for      *)
(*     m * 2^20 bytes.  nvidia-smi reports MiB itself.                      *)
(*   - An f64 amount of GiB is the integer number of 1/5120 GiB it holds    *)
(*     (1/5 MiB), so that bytes / 2^30, mb / 1024, 0.1, 4.1, the table's    *)
(*     whole GiB and 0.8 * total are all exact: 1 MiB = 5, 1 GiB = 5120,    *)
(*     0.1 GiB = 512, 4.1 GiB = 20992.                                      *)
(*   - vm_stat page counts are counted in blocks of 256 pages and the page  *)
(*     size in bytes: blocks * page_size / 4096 is the product in MiB.      *)
(*   All amounts stay far below 2^64, so no u64 addition or multiplication  *)
(*   of the model wraps.                                                    *)
(* Text is a TLA+ string; a tool's output is a sequence of lines.           *)
(***************************************************************************)
EXTENDS Integers, Sequences, FiniteSets, TLC

VARIABLES
    target_arch,        \* cfg!(target_arch): fixed when the program is built
    target_os,          \* cfg!(target_os)
    pc,                 \* position of SystemSpecs::detect
    total_ram_gb,       \* SystemSpecs fields (Null until assigned)
    available_ram_gb,
    total_cpu_cores,
    cpu_name,
    has_gpu,
    gpu_vram_gb,
    gpu_name,
    gpu_count,
    unified_memory,
    backend,
    tried,              \* history: the probes attempted so far, in order
    input,              \* what the step just taken read from the machine
    call,               \* function harness: the function applied and its arguments
    ret,                \* function harness: the value it returned
    IS_WSL,             \* static IS_WSL: OnceLock<bool>, None until set
    once,               \* state of the OnceLock's Once
    env,                \* what detect_running_in_wsl can read of the process
    thread_pc,          \* position of each thread in is_running_in_wsl
    detected,           \* result of detect_running_in_wsl not yet stored
    got,                \* the value each thread's last call returned
    calls,              \* calls each thread has made
    executions,         \* executions of detect_running_in_wsl begun
    env_changes         \* changes made to the environment variables

vars == <<target_arch, target_os, pc, total_ram_gb, available_ram_gb,
          total_cpu_cores, cpu_name, has_gpu, gpu_vram_gb, gpu_name, gpu_count,
          unified_memory, backend, tried, input, call, ret,
          IS_WSL, once, env, thread_pc, detected, got, calls, executions,
          env_changes>>

detect_vars == <<target_arch, pc, total_ram_gb, available_ram_gb,
                 total_cpu_cores, cpu_name, has_gpu, gpu_vram_gb, gpu_name,
                 gpu_count, unified_memory, backend, tried, input, call, ret>>

wsl_vars == <<IS_WSL, once, env, thread_pc, detected, got, calls, executions,
              env_changes>>

-----------------------------------------------------------------------------
(* Option<T> and the not-yet-assigned value of a local                      *)

None == [some |-> FALSE]
Some(v) == [some |-> TRUE, val |-> v]
Null == [null |-> TRUE]

\* The WSL flag while no thread asks for it
NoThreads ==
    /\ IS_WSL = None /\ once = "incomplete" /\ env = Null
    /\ thread_pc = <<>> /\ detected = <<>> /\ got = <<>> /\ calls = <<>>
    /\ executions = 0 /\ env_changes = 0

-----------------------------------------------------------------------------
(* f64 amounts of GiB                                                       *)

\* bytes as f64 / (1024.0 * 1024.0 * 1024.0), bytes counted in MiB
BytesToGb(mib) == mib * 5

\* total_vram_mb / 1024.0
MbToGb(mb) == mb * 5

\* a literal of whole GiB such as 24.0
WholeGb(g) == g * 5120

-----------------------------------------------------------------------------
(* str::to_lowercase and str::contains, for ASCII text                      *)

LowerOf ==
    [c \in {"A", "B", "C", "D", "E", "F", "G", "H", "I", "J", "K", "L", "M",
            "N", "O", "P", "Q", "R", "S", "T", "U", "V", "W", "X", "Y", "Z"} |->
        CASE c = "A" -> "a" [] c = "B" -> "b" [] c = "C" -> "c" [] c = "D" -> "d"
          [] c = "E" -> "e" [] c = "F" -> "f" [] c = "G" -> "g" [] c = "H" -> "h"
          [] c = "I" -> "i" [] c = "J" -> "j" [] c = "K" -> "k" [] c = "L" -> "l"
          [] c = "M" -> "m" [] c = "N" -> "n" [] c = "O" -> "o" [] c = "P" -> "p"
          [] c = "Q" -> "q" [] c = "R" -> "r" [] c = "S" -> "s" [] c = "T" -> "t"
          [] c = "U" -> "u" [] c = "V" -> "v" [] c = "W" -> "w" [] c = "X" -> "x"
          [] c = "Y" -> "y" [] c = "Z" -> "z"]

char_to_lowercase(c) == IF c \in DOMAIN LowerOf THEN LowerOf[c] ELSE c

RECURSIVE to_lowercase(_)
to_lowercase(s) ==
    IF Len(s) = 0 THEN ""
    ELSE char_to_lowercase(SubSeq(s, 1, 1)) \o to_lowercase(SubSeq(s, 2, Len(s)))

contains(s, pat) ==
    \E i \in 1..(Len(s) - Len(pat) + 1) : SubSeq(s, i, i + Len(pat) - 1) = pat

starts_with(s, pat) ==
    Len(s) >= Len(pat) /\ SubSeq(s, 1, Len(pat)) = pat

-----------------------------------------------------------------------------
(* Text helpers: str::trim, find, rfind, split, splitn(2, _), parse          *)

RECURSIVE trim_start(_)
trim_start(s) ==
    IF Len(s) > 0 /\ SubSeq(s, 1, 1) = " " THEN trim_start(SubSeq(s, 2, Len(s)))
    ELSE s

RECURSIVE trim_end(_)
trim_end(s) ==
    IF Len(s) > 0 /\ SubSeq(s, Len(s), Len(s)) = " "
    THEN trim_end(SubSeq(s, 1, Len(s) - 1))
    ELSE s

trim(s) == trim_end(trim_start(s))

\* str::trim_end_matches('.')
RECURSIVE trim_end_dots(_)
trim_end_dots(s) ==
    IF Len(s) > 0 /\ SubSeq(s, Len(s), Len(s)) = "."
    THEN trim_end_dots(SubSeq(s, 1, Len(s) - 1))
    ELSE s

Occurrences(s, pat) ==
    {i \in 1..(Len(s) - Len(pat) + 1) : SubSeq(s, i, i + Len(pat) - 1) = pat}

Min(S) == CHOOSE x \in S : \A y \in S : x <= y
Max(S) == CHOOSE x \in S : \A y \in S : x >= y

\* str::find / str::rfind: position of the first / last occurrence, 0 when none
find(s, pat) == IF Occurrences(s, pat) = {} THEN 0 ELSE Min(Occurrences(s, pat))
rfind(s, pat) == IF Occurrences(s, pat) = {} THEN 0 ELSE Max(Occurrences(s, pat))

\* str::split(pat).collect(): every piece, empty ones included
RECURSIVE split(_, _)
split(s, pat) ==
    LET i == find(s, pat) IN
    IF i = 0 THEN <<s>>
    ELSE <<SubSeq(s, 1, i - 1)>> \o split(SubSeq(s, i + Len(pat), Len(s)), pat)

\* str::splitn(2, pat).collect(): cut at the first occurrence only
splitn2(s, pat) ==
    LET i == find(s, pat) IN
    IF i = 0 THEN <<s>>
    ELSE <<SubSeq(s, 1, i - 1), SubSeq(s, i + Len(pat), Len(s))>>

\* str::split_whitespace().collect(): the non-empty pieces between blanks
RECURSIVE drop_empty(_)
drop_empty(parts) ==
    IF parts = <<>> THEN <<>>
    ELSE IF Len(Head(parts)) = 0 THEN drop_empty(Tail(parts))
    ELSE <<Head(parts)>> \o drop_empty(Tail(parts))

split_whitespace(s) == drop_empty(split(s, " "))

\* Vec::join(sep)
RECURSIVE join(_, _)
join(parts, sep) ==
    IF parts = <<>> THEN ""
    ELSE IF Len(parts) = 1 THEN parts[1]
    ELSE parts[1] \o sep \o join(Tail(parts), sep)

Digits == "0123456789"

is_digit(c) == \E i \in 1..Len(Digits) : SubSeq(Digits, i, i) = c

digit_value(c) == (CHOOSE i \in 1..Len(Digits) : SubSeq(Digits, i, i) = c) - 1

RECURSIVE digits_value(_, _)
digits_value(s, acc) ==
    IF Len(s) = 0 THEN acc
    ELSE digits_value(SubSeq(s, 2, Len(s)), acc * 10 + digit_value(SubSeq(s, 1, 1)))

\* str::parse::<u64>() of a decimal numeral: Some(n), or None for any other text
parse_u64(s) ==
    IF Len(s) > 0 /\ \A i \in 1..Len(s) : is_digit(SubSeq(s, i, i))
    THEN Some(digits_value(s, 0))
    ELSE None

\* str::parse::<f64>() on the texts nvidia-smi prints with nounits: a numeral
\* of MiB, or a bracketed placeholder that does not parse
parse_f64(s) == parse_u64(s)

-----------------------------------------------------------------------------
(* VRAM estimation table: estimate_vram_from_name                          *)

\* The table with every generic token moved in front of its variants.
VramTableBaseFirst ==
  <<
    [tokens |-> {"5090"}, gb |-> 32],
    [tokens |-> {"5080"}, gb |-> 16],
    [tokens |-> {"5070"}, gb |-> 12],
    [tokens |-> {"5070 ti"}, gb |-> 16],
    [tokens |-> {"5060"}, gb |-> 8],
    [tokens |-> {"5060 ti"}, gb |-> 16],
    [tokens |-> {"4090"}, gb |-> 24],
    [tokens |-> {"4080"}, gb |-> 16],
    [tokens |-> {"4070 ti"}, gb |-> 12],
    [tokens |-> {"4070"}, gb |-> 12],
    [tokens |-> {"4060"}, gb |-> 8],
    [tokens |-> {"4060 ti"}, gb |-> 16],
    [tokens |-> {"3090"}, gb |-> 24],
    [tokens |-> {"3080"}, gb |-> 10],
    [tokens |-> {"3080 ti"}, gb |-> 12],
    [tokens |-> {"3070"}, gb |-> 8],
    [tokens |-> {"3060"}, gb |-> 12],
    [tokens |-> {"3060 ti"}, gb |-> 8],
    [tokens |-> {"h100"}, gb |-> 80],
    [tokens |-> {"a10"}, gb |-> 24],
    [tokens |-> {"l40"}, gb |-> 48],
    [tokens |-> {"a100"}, gb |-> 80],
    [tokens |-> {"t4"}, gb |-> 16],
    [tokens |-> {"9070"}, gb |-> 12],
    [tokens |-> {"9070 xt"}, gb |-> 16],
    [tokens |-> {"7900"}, gb |-> 20],
    [tokens |-> {"7900 xtx"}, gb |-> 24],
    [tokens |-> {"7800"}, gb |-> 16],
    [tokens |-> {"7700"}, gb |-> 12],
    [tokens |-> {"7600"}, gb |-> 8],
    [tokens |-> {"6950"}, gb |-> 16],
    [tokens |-> {"6900"}, gb |-> 16],
    [tokens |-> {"6800"}, gb |-> 16],
    [tokens |-> {"6750"}, gb |-> 12],
    [tokens |-> {"6700"}, gb |-> 12],
    [tokens |-> {"6650"}, gb |-> 8],
    [tokens |-> {"6600"}, gb |-> 8],
    [tokens |-> {"6500"}, gb |-> 4],
    [tokens |-> {"5700 xt"}, gb |-> 8],
    [tokens |-> {"5700"}, gb |-> 8],
    [tokens |-> {"5600"}, gb |-> 6],
    [tokens |-> {"5500"}, gb |-> 4],
    [tokens |-> {"rtx"}, gb |-> 8],
    [tokens |-> {"gtx"}, gb |-> 4],
    [tokens |-> {"rx ", "radeon"}, gb |-> 8]
  >>

\* The chain of `if lower.contains(token) { return gb; }`, in source order.
VramTable ==
  <<
    [tokens |-> {"5090"}, gb |-> 32],
    [tokens |-> {"5080"}, gb |-> 16],
    [tokens |-> {"5070 ti"}, gb |-> 16],
    [tokens |-> {"5070"}, gb |-> 12],
    [tokens |-> {"5060 ti"}, gb |-> 16],
    [tokens |-> {"5060"}, gb |-> 8],
    [tokens |-> {"4090"}, gb |-> 24],
    [tokens |-> {"4080"}, gb |-> 16],
    [tokens |-> {"4070 ti"}, gb |-> 12],
    [tokens |-> {"4070"}, gb |-> 12],
    [tokens |-> {"4060 ti"}, gb |-> 16],
    [tokens |-> {"4060"}, gb |-> 8],
    [tokens |-> {"3090"}, gb |-> 24],
    [tokens |-> {"3080 ti"}, gb |-> 12],
    [tokens |-> {"3080"}, gb |-> 10],
    [tokens |-> {"3070"}, gb |-> 8],
    [tokens |-> {"3060 ti"}, gb |-> 8],
    [tokens |-> {"3060"}, gb |-> 12],
    [tokens |-> {"h100"}, gb |-> 80],
    [tokens |-> {"a100"}, gb |-> 80],
    [tokens |-> {"l40"}, gb |-> 48],
    [tokens |-> {"a10"}, gb |-> 24],
    [tokens |-> {"t4"}, gb |-> 16],
    [tokens |-> {"9070 xt"}, gb |-> 16],
    [tokens |-> {"9070"}, gb |-> 12],
    [tokens |-> {"7900 xtx"}, gb |-> 24],
    [tokens |-> {"7900"}, gb |-> 20],
    [tokens |-> {"7800"}, gb |-> 16],
    [tokens |-> {"7700"}, gb |-> 12],
    [tokens |-> {"7600"}, gb |-> 8],
    [tokens |-> {"6950"}, gb |-> 16],
    [tokens |-> {"6900"}, gb |-> 16],
    [tokens |-> {"6800"}, gb |-> 16],
    [tokens |-> {"6750"}, gb |-> 12],
    [tokens |-> {"6700"}, gb |-> 12],
    [tokens |-> {"6650"}, gb |-> 8],
    [tokens |-> {"6600"}, gb |-> 8],
    [tokens |-> {"6500"}, gb |-> 4],
    [tokens |-> {"5700 xt"}, gb |-> 8],
    [tokens |-> {"5700"}, gb |-> 8],
    [tokens |-> {"5600"}, gb |-> 6],
    [tokens |-> {"5500"}, gb |-> 4],
    [tokens |-> {"rtx"}, gb |-> 8],
    [tokens |-> {"gtx"}, gb |-> 4],
    [tokens |-> {"rx ", "radeon"}, gb |-> 8]
  >>

RECURSIVE first_match(_, _, _)
first_match(table, lower, i) ==
    IF i > Len(table) THEN 0
    ELSE IF \E tok \in table[i].tokens : contains(lower, tok) THEN i
    ELSE first_match(table, lower, i + 1)

\* Whole GiB of the first table row with a token in the name, 0 when none.
estimate_gb(name) ==
    LET lower == to_lowercase(name)
        i == first_match(VramTable, lower, 1)
    IN  IF i = 0 THEN 0 ELSE VramTable[i].gb

estimate_vram_from_name(name) == WholeGb(estimate_gb(name))

-----------------------------------------------------------------------------
(* Backend classifier                                                       *)

Backends == {"Cuda", "Metal", "Rocm", "Vulkan", "Sycl", "CpuArm", "CpuX86"}

\* A classifier that matches the keywords against the name as written.
infer_gpu_backend_case_sensitive(name) ==
    IF contains(name, "nvidia") \/ contains(name, "geforce")
       \/ contains(name, "quadro") \/ contains(name, "tesla")
       \/ contains(name, "rtx")
    THEN "Cuda"
    ELSE IF contains(name, "amd") \/ contains(name, "radeon")
            \/ contains(name, "ati")
    THEN "Vulkan"
    ELSE IF contains(name, "intel") \/ contains(name, "arc")
    THEN "Sycl"
    ELSE "Vulkan"

infer_gpu_backend(name) ==
    LET lower == to_lowercase(name) IN
    IF contains(lower, "nvidia") \/ contains(lower, "geforce")
       \/ contains(lower, "quadro") \/ contains(lower, "tesla")
       \/ contains(lower, "rtx")
    THEN "Cuda"
    ELSE IF contains(lower, "amd") \/ contains(lower, "radeon")
            \/ contains(lower, "ati")
    THEN "Vulkan"
    ELSE IF contains(lower, "intel") \/ contains(lower, "arc")
    THEN "Sycl"
    ELSE "Vulkan"

-----------------------------------------------------------------------------
(* std::process::Command::output() as the program sees it: the launch fails,*)
(* the tool exits with a nonzero status, its stdout is not UTF-8, or it     *)
(* exits successfully with lines of text.  The status is tested before the  *)
(* encoding, so a failed tool's stdout is never decoded.                    *)

LaunchFail == [status |-> "launch_fail", lines |-> <<>>]
NonZeroExit == [status |-> "nonzero_exit", lines |-> <<>>]
BadUtf8 == [status |-> "bad_utf8", lines |-> <<>>]
Ok(lines) == [status |-> "ok", lines |-> lines]

\* The tuple (has_gpu, gpu_vram_gb, gpu_name, gpu_count, unified_memory, backend)
Record(has, vram, name, count, unified, be) ==
    [has_gpu |-> has, gpu_vram_gb |-> vram, gpu_name |-> name,
     gpu_count |-> count, unified_memory |-> unified, backend |-> be]

\* 0.1 GiB and 4.1 GiB in units of 1/5120 GiB
NearZeroGb == 512
WmiCapGb == 20992

-----------------------------------------------------------------------------
(* Probe 1: nvidia-smi --query-gpu=memory.total,name, one line per device   *)

\* A loop body that counts every non-empty line, parsed or not.
nvidia_line_counts_all(acc, raw) ==
    LET line == trim(raw)
        parts == splitn2(line, ",")
        vram_mb == parse_f64(trim(parts[1]))
    IN  IF Len(line) = 0 THEN acc
        ELSE [total_vram_mb |-> acc.total_vram_mb
                                + (IF vram_mb.some THEN vram_mb.val ELSE 0),
              count |-> acc.count + 1,
              first_name |-> IF ~acc.first_name.some /\ Len(parts) >= 2
                             THEN Some(trim(parts[2])) ELSE acc.first_name]

\* The body of `for line in text.lines()`
nvidia_line(acc, raw) ==
    LET line == trim(raw)
        parts == splitn2(line, ",")
        vram_mb == parse_f64(trim(parts[1]))
    IN  IF Len(line) = 0 THEN acc
        ELSE IF ~vram_mb.some THEN acc
        ELSE [total_vram_mb |-> acc.total_vram_mb + vram_mb.val,
              count |-> acc.count + 1,
              first_name |-> IF ~acc.first_name.some /\ Len(parts) >= 2
                             THEN Some(trim(parts[2])) ELSE acc.first_name]

RECURSIVE nvidia_lines(_, _)
nvidia_lines(acc, lines) ==
    IF lines = <<>> THEN acc
    ELSE nvidia_lines(nvidia_line(acc, Head(lines)), Tail(lines))

\* The record built when count > 0
nvidia_record(acc) ==
    LET direct == MbToGb(acc.total_vram_mb)
        vram_gb == IF direct < NearZeroGb /\ acc.first_name.some
                   THEN estimate_vram_from_name(acc.first_name.val)
                   ELSE direct
        vram == IF vram_gb > 0 THEN Some(vram_gb) ELSE None
    IN  Record(TRUE, vram, acc.first_name, acc.count, FALSE, "Cuda")

\* A probe that parses stdout whatever the exit status was.
detect_nvidia_gpu_ignores_status(out) ==
    IF out.status \in {"launch_fail", "bad_utf8"} THEN None
    ELSE LET acc == nvidia_lines([total_vram_mb |-> 0, count |-> 0,
                                  first_name |-> None], out.lines)
         IN  IF acc.count > 0 THEN Some(nvidia_record(acc)) ELSE None

detect_nvidia_gpu(out) ==
    IF out.status # "ok" THEN None
    ELSE LET acc == nvidia_lines([total_vram_mb |-> 0, count |-> 0,
                                  first_name |-> None], out.lines)
         IN  IF acc.count > 0 THEN Some(nvidia_record(acc)) ELSE None

-----------------------------------------------------------------------------
(* Probe 2: rocm-smi --showmeminfo vram, then rocm-smi --showproductname    *)

RECURSIVE parsed_words(_)
parsed_words(words) ==
    IF words = <<>> THEN <<>>
    ELSE LET v == parse_u64(Head(words)) IN
         (IF v.some THEN <<v.val>> ELSE <<>>) \o parsed_words(Tail(words))

\* A loop body that also adds the lines mentioning "used".
rocm_line_counts_used(acc, line) ==
    LET lower == to_lowercase(line)
        nums == parsed_words(split_whitespace(line))
    IN  IF contains(lower, "total")
           /\ nums # <<>> /\ nums[Len(nums)] > 0
        THEN [total_vram_bytes |-> acc.total_vram_bytes + nums[Len(nums)],
              gpu_count |-> acc.gpu_count + 1]
        ELSE acc

\* The body of `for line in vram_text.lines()`
rocm_line(acc, line) ==
    LET lower == to_lowercase(line)
        nums == parsed_words(split_whitespace(line))
    IN  IF contains(lower, "total") /\ ~contains(lower, "used")
           /\ nums # <<>> /\ nums[Len(nums)] > 0
        THEN [total_vram_bytes |-> acc.total_vram_bytes + nums[Len(nums)],
              gpu_count |-> acc.gpu_count + 1]
        ELSE acc

RECURSIVE rocm_lines(_, _)
rocm_lines(acc, lines) ==
    IF lines = <<>> THEN acc
    ELSE rocm_lines(rocm_line(acc, Head(lines)), Tail(lines))

\* The closure over the product-name report: the first "Card Series" or
\* "Card Model" line with a non-empty value after its first colon
RECURSIVE rocm_card_name(_)
rocm_card_name(lines) ==
    IF lines = <<>> THEN None
    ELSE LET lower == to_lowercase(Head(lines))
             pieces == split(Head(lines), ":")
         IN  IF (contains(lower, "card series") \/ contains(lower, "card model"))
                /\ Len(pieces) >= 2 /\ Len(trim(pieces[2])) > 0
             THEN Some(trim(pieces[2]))
             ELSE rocm_card_name(Tail(lines))

detect_amd_gpu_rocm(vram_output, name_output) ==
    IF vram_output.status # "ok" THEN None
    ELSE LET acc == rocm_lines([total_vram_bytes |-> 0, gpu_count |-> 0],
                               vram_output.lines)
             gpu_count_ == IF acc.gpu_count = 0 THEN 1 ELSE acc.gpu_count
             gpu_name_ == IF name_output.status = "ok"
                          THEN rocm_card_name(name_output.lines) ELSE None
             estimated == IF gpu_name_.some
                          THEN estimate_vram_from_name(gpu_name_.val) ELSE 0
             vram_gb == IF acc.total_vram_bytes > 0
                        THEN Some(BytesToGb(acc.total_vram_bytes))
                        ELSE IF estimated > 0 THEN Some(estimated) ELSE None
         IN  Some(Record(TRUE, vram_gb, gpu_name_, gpu_count_, FALSE, "Rocm"))

-----------------------------------------------------------------------------
(* Probe 3: /sys/class/drm scan for vendor 0x1002, name from lspci          *)
(* A directory listing is None (read_dir failed) or Some sequence of        *)
(* entries [name, vendor, vram]: the file name (None when it is not valid   *)
(* UTF-8) and the contents of device/vendor and device/mem_info_vram_total  *)
(* (None when the file cannot be read).                                     *)

RECURSIVE amd_lspci_name(_)
amd_lspci_name(lines) ==
    IF lines = <<>> THEN None
    ELSE LET line == Head(lines)
             lower == to_lowercase(line)
             pieces == split(line, "]:")
             desc == trim(pieces[Len(pieces)])
             start == rfind(desc, "[")
             end == rfind(desc, "]")
         IN  IF (contains(lower, "vga") \/ contains(lower, "3d"))
                /\ (contains(lower, "amd") \/ contains(lower, "ati"))
             THEN IF start > 0 /\ end > 0 /\ start < end
                  THEN Some(SubSeq(desc, start + 1, end - 1))
                  ELSE Some(desc)
             ELSE amd_lspci_name(Tail(lines))

get_amd_gpu_name_lspci(output) ==
    IF output.status # "ok" THEN None ELSE amd_lspci_name(output.lines)

\* Option<u64> of a file's content: read_to_string, trim, parse
read_u64(content) == IF content.some THEN parse_u64(trim(content.val)) ELSE None

\* A record that takes the table's value for the name whenever it is
\* positive, and the attribute file only otherwise.
amd_sysfs_record_prefers_table(entry, lspci) ==
    LET vram_bytes == read_u64(entry.vram)
        direct == IF vram_bytes.some /\ vram_bytes.val > 0
                  THEN Some(BytesToGb(vram_bytes.val)) ELSE None
        gpu_name_ == get_amd_gpu_name_lspci(lspci)
        estimated == IF gpu_name_.some
                     THEN estimate_vram_from_name(gpu_name_.val) ELSE 0
        vram_gb == IF estimated > 0 THEN Some(estimated) ELSE direct
    IN  Record(TRUE, vram_gb, gpu_name_, 1, FALSE, "Vulkan")

\* A record that reports presence only when a VRAM amount is known.
amd_sysfs_record_needs_vram(entry, lspci) ==
    LET vram_bytes == read_u64(entry.vram)
        direct == IF vram_bytes.some /\ vram_bytes.val > 0
                  THEN Some(BytesToGb(vram_bytes.val)) ELSE None
        gpu_name_ == get_amd_gpu_name_lspci(lspci)
        estimated == IF gpu_name_.some
                     THEN estimate_vram_from_name(gpu_name_.val) ELSE 0
        vram_gb == IF direct.some THEN direct
                   ELSE IF estimated > 0 THEN Some(estimated) ELSE None
    IN  Record(vram_gb.some, vram_gb, gpu_name_, IF vram_gb.some THEN 1 ELSE 0,
               FALSE, "Vulkan")

\* From "Found an AMD GPU" to the return, for the matching entry
amd_sysfs_record(entry, lspci) ==
    LET vram_bytes == read_u64(entry.vram)
        direct == IF vram_bytes.some /\ vram_bytes.val > 0
                  THEN Some(BytesToGb(vram_bytes.val)) ELSE None
        gpu_name_ == get_amd_gpu_name_lspci(lspci)
        estimated == IF gpu_name_.some
                     THEN estimate_vram_from_name(gpu_name_.val) ELSE 0
        vram_gb == IF direct.some THEN direct
                   ELSE IF estimated > 0 THEN Some(estimated) ELSE None
    IN  Record(TRUE, vram_gb, gpu_name_, 1, FALSE, "Vulkan")

RECURSIVE amd_sysfs_entries(_, _)
amd_sysfs_entries(entries, lspci) ==
    IF entries = <<>> THEN None
    ELSE LET entry == Head(entries) IN
         IF ~entry.name.some THEN None
         ELSE IF ~starts_with(entry.name.val, "card") \/ contains(entry.name.val, "-")
         THEN amd_sysfs_entries(Tail(entries), lspci)
         ELSE IF ~entry.vendor.some \/ trim(entry.vendor.val) # "0x1002"
         THEN amd_sysfs_entries(Tail(entries), lspci)
         ELSE Some(amd_sysfs_record(entry, lspci))

detect_amd_gpu_sysfs(os, dir, lspci) ==
    IF os # "linux" THEN None
    ELSE IF ~dir.some THEN None
    ELSE amd_sysfs_entries(dir.val, lspci)

-----------------------------------------------------------------------------
(* Probe 4: Win32_VideoController through PowerShell, wmic when it fails    *)

\* The filter without its to_lowercase.
ps_skips_case_sensitive(name) ==
    \/ contains(name, "microsoft") \/ contains(name, "basic")
    \/ contains(name, "virtual") \/ Len(name) = 0

\* `lower.contains("microsoft") || ... || lower.is_empty()`
ps_skips(name) ==
    LET lower == to_lowercase(name) IN
    \/ contains(lower, "microsoft") \/ contains(lower, "basic")
    \/ contains(lower, "virtual") \/ Len(lower) = 0

\* `lower.contains("microsoft") || lower.contains("basic") || lower.contains("virtual")`
wmic_skips(name) ==
    LET lower == to_lowercase(name) IN
    \/ contains(lower, "microsoft") \/ contains(lower, "basic")
    \/ contains(lower, "virtual")

\* A comparison that lets a later entry of equal RAM replace the best one.
replaces_best_on_tie(vram, acc) == vram >= acc.best_vram \/ ~acc.best_name.some

\* `vram > best_vram || best_name.is_none()`
replaces_best(vram, acc) == vram > acc.best_vram \/ ~acc.best_name.some

\* An adjustment that takes the table's value whenever it is positive.
wmi_vram_gb_always_estimates(best_vram, name) ==
    IF estimate_vram_from_name(name) > 0 THEN estimate_vram_from_name(name)
    ELSE BytesToGb(best_vram)

\* AdapterRAM to GiB, replaced by the table's estimate when it looks capped
wmi_vram_gb(best_vram, name) ==
    LET vram_gb == BytesToGb(best_vram)
        estimated == estimate_vram_from_name(name)
    IN  IF (vram_gb < NearZeroGb
            \/ (vram_gb <= WmiCapGb /\ estimated > WmiCapGb))
           /\ estimated > 0
        THEN estimated
        ELSE vram_gb

\* The body of `for line in text.lines()` of parse_windows_gpu_entries
ps_line(acc, raw) ==
    LET line == trim(raw)
        parts == splitn2(line, "|")
        name == trim(parts[1])
        parsed == IF Len(parts) >= 2 THEN parse_u64(trim(parts[2])) ELSE None
        vram == IF parsed.some THEN parsed.val ELSE 0
    IN  IF Len(line) = 0 THEN acc
        ELSE IF ps_skips(name) THEN acc
        ELSE IF replaces_best(vram, acc)
        THEN [best_name |-> Some(name), best_vram |-> vram, count |-> acc.count + 1]
        ELSE [acc EXCEPT !.count = acc.count + 1]

RECURSIVE ps_lines(_, _)
ps_lines(acc, lines) ==
    IF lines = <<>> THEN acc
    ELSE ps_lines(ps_line(acc, Head(lines)), Tail(lines))

parse_windows_gpu_entries(lines) ==
    LET acc == ps_lines([best_name |-> None, best_vram |-> 0, count |-> 0], lines)
        name == acc.best_name.val
        vram_gb == wmi_vram_gb(acc.best_vram, name)
        vram == IF vram_gb > 0 THEN Some(vram_gb) ELSE None
    IN  IF acc.best_name.some
        THEN Some(Record(TRUE, vram, Some(name),
                         IF acc.count > 1 THEN acc.count ELSE 1,
                         FALSE, infer_gpu_backend(name)))
        ELSE None

\* The body of `for line in text.lines().skip(1)` of detect_gpu_windows_wmic
wmic_line(acc, raw) ==
    LET line == trim(raw)
        parts == split(line, ",")
        parsed == parse_u64(trim(parts[2]))
        vram == IF parsed.some THEN parsed.val ELSE 0
        name == trim(join(SubSeq(parts, 3, Len(parts)), ","))
    IN  IF Len(line) = 0 THEN acc
        ELSE IF Len(parts) < 3 THEN acc
        ELSE IF wmic_skips(name) THEN acc
        ELSE IF replaces_best(vram, acc)
        THEN [best_name |-> Some(name), best_vram |-> vram, count |-> acc.count]
        ELSE acc

RECURSIVE wmic_lines(_, _)
wmic_lines(acc, lines) ==
    IF lines = <<>> THEN acc
    ELSE wmic_lines(wmic_line(acc, Head(lines)), Tail(lines))

\* The adjustment of detect_gpu_windows_wmic, the same expression as in
\* parse_windows_gpu_entries
wmic_vram_gb(best_vram, name) ==
    LET vram_gb == BytesToGb(best_vram)
        estimated == estimate_vram_from_name(name)
    IN  IF (vram_gb < NearZeroGb
            \/ (vram_gb <= WmiCapGb /\ estimated > WmiCapGb))
           /\ estimated > 0
        THEN estimated
        ELSE vram_gb

detect_gpu_windows_wmic(output) ==
    IF output.status # "ok" THEN None
    ELSE LET acc == wmic_lines([best_name |-> None, best_vram |-> 0, count |-> 0],
                               IF output.lines = <<>> THEN <<>> ELSE Tail(output.lines))
             name == acc.best_name.val
             vram_gb == wmic_vram_gb(acc.best_vram, name)
             vram == IF vram_gb > 0 THEN Some(vram_gb) ELSE None
         IN  IF acc.best_name.some
             THEN Some(Record(TRUE, vram, Some(name), 1, FALSE, infer_gpu_backend(name)))
             ELSE None

detect_gpu_windows(os, powershell, wmic) ==
    IF os # "windows" THEN None
    ELSE IF powershell.status = "launch_fail" THEN None
    ELSE IF powershell.status = "nonzero_exit" THEN detect_gpu_windows_wmic(wmic)
    ELSE IF powershell.status = "bad_utf8" THEN None
    ELSE parse_windows_gpu_entries(powershell.lines)

-----------------------------------------------------------------------------
(* Probe 5: /sys/class/drm scan for vendor 0x8086, then lspci for Intel Arc *)

intel_arc_in_lspci(output) ==
    /\ output.status = "ok"
    /\ \E i \in 1..Len(output.lines) :
          LET lower == to_lowercase(output.lines[i]) IN
          contains(lower, "intel") /\ contains(lower, "arc")

\* The loop over the directory entries: Some(vram_gb) at the first return
RECURSIVE intel_entries(_, _)
intel_entries(entries, lspci) ==
    IF entries = <<>> THEN None
    ELSE LET entry == Head(entries)
             vram_bytes == read_u64(entry.vram)
         IN  IF entry.vendor.some /\ trim(entry.vendor.val) # "0x8086"
             THEN intel_entries(Tail(entries), lspci)
             ELSE IF vram_bytes.some /\ vram_bytes.val > 0
             THEN Some(BytesToGb(vram_bytes.val))
             ELSE IF intel_arc_in_lspci(lspci) THEN Some(0)
             ELSE intel_entries(Tail(entries), lspci)

\* Whether detect_intel_gpu runs lspci at all: it does unless the first entry
\* that passes the vendor test has a positive VRAM attribute
RECURSIVE intel_entries_read_lspci(_)
intel_entries_read_lspci(entries) ==
    IF entries = <<>> THEN TRUE
    ELSE LET entry == Head(entries)
             vram_bytes == read_u64(entry.vram)
         IN  IF entry.vendor.some /\ trim(entry.vendor.val) # "0x8086"
             THEN intel_entries_read_lspci(Tail(entries))
             ELSE ~(vram_bytes.some /\ vram_bytes.val > 0)

intel_reads_lspci(dir) == IF dir.some THEN intel_entries_read_lspci(dir.val) ELSE TRUE

detect_intel_gpu(dir, lspci) ==
    LET found == IF dir.some THEN intel_entries(dir.val, lspci) ELSE None IN
    IF found.some THEN found
    ELSE IF intel_arc_in_lspci(lspci) THEN Some(0)
    ELSE None

-----------------------------------------------------------------------------
(* Probe 6: system_profiler SPDisplaysDataType                              *)

\* The parameter is named total_ram_gb in the source.
detect_apple_gpu(ram_gb, output) ==
    IF output.status # "ok" THEN None
    ELSE IF \E i \in 1..Len(output.lines) :
               LET lower == to_lowercase(output.lines[i]) IN
               contains(lower, "apple m") \/ contains(lower, "apple gpu")
    THEN Some(ram_gb)
    ELSE None

-----------------------------------------------------------------------------
(* Available-memory fallback                                                *)

DefaultPageSize == 16384

\* parse_vm_stat_line: "Pages free:    123456."
parse_vm_stat_line(line, key) ==
    IF ~starts_with(line, key) THEN None
    ELSE LET pieces == split(line, ":") IN
         IF Len(pieces) < 2 THEN None
         ELSE parse_u64(trim_end_dots(trim(pieces[2])))

\* The header's page size in bytes: the text between "page size of " and the
\* next blank
vm_stat_page_size(lines) ==
    IF lines = <<>> THEN DefaultPageSize
    ELSE LET pieces == split(lines[1], "page size of ")
             parsed == IF Len(pieces) < 2 THEN None
                       ELSE parse_u64(split(pieces[2], " ")[1])
         IN  IF parsed.some THEN parsed.val ELSE DefaultPageSize

\* The body of `for line in text.lines()`: the last line of each kind wins
vm_stat_line(acc, line) ==
    LET f == parse_vm_stat_line(line, "Pages free")
        i == parse_vm_stat_line(line, "Pages inactive")
        p == parse_vm_stat_line(line, "Pages purgeable")
    IN  IF f.some THEN [acc EXCEPT !.free = f.val]
        ELSE IF i.some THEN [acc EXCEPT !.inactive = i.val]
        ELSE IF p.some THEN [acc EXCEPT !.purgeable = p.val]
        ELSE acc

RECURSIVE vm_stat_lines(_, _)
vm_stat_lines(acc, lines) ==
    IF lines = <<>> THEN acc
    ELSE vm_stat_lines(vm_stat_line(acc, Head(lines)), Tail(lines))

\* Page counts are in blocks of 256 pages and the page size in bytes, so the
\* product, in MiB, is blocks * page_size / 4096.
available_ram_from_vm_stat(output) ==
    IF output.status # "ok" THEN None
    ELSE LET page_size == vm_stat_page_size(output.lines)
             acc == vm_stat_lines([free |-> 0, inactive |-> 0, purgeable |-> 0],
                                  output.lines)
             available_bytes ==
                 ((acc.free + acc.inactive + acc.purgeable) * page_size) \div 4096
         IN  IF available_bytes > 0 THEN Some(BytesToGb(available_bytes)) ELSE None

\* A test that also accepts a used-memory counter of zero.
used_is_plausible_or_zero(used, total_bytes) == used < total_bytes

\* total - used is taken when 0 < used < total
used_is_plausible(used, total_bytes) == used > 0 /\ used < total_bytes

available_ram_fallback(used, total_bytes, total_gb, vm_stat) ==
    IF used_is_plausible(used, total_bytes)
    THEN BytesToGb(total_bytes - used)
    ELSE LET avail == available_ram_from_vm_stat(vm_stat) IN
         IF avail.some THEN avail.val
         ELSE (total_gb * 4) \div 5

-----------------------------------------------------------------------------
(* What the machine can answer: bounded sets of readings and tool outputs   *)

MaxRamBlocks == 2       \* RAM readings are 0..MaxRamBlocks blocks of 4 GiB
MaxDevices == 3         \* device lines in an nvidia-smi report
MaxEntries == 2         \* entries in a Win32_VideoController report
MaxCards == 1           \* entries of /sys/class/drm

SeqsUpTo(S, n) == UNION {[1..k -> S] : k \in 0..n}

Failures == {LaunchFail, NonZeroExit, BadUtf8}

NotRun == [status |-> "not_run", lines |-> <<>>]

RamReadings == {4096 * k : k \in 0..MaxRamBlocks}

CpuBrands == {"Apple M2", "Intel(R) Core(TM) i7-9750H"}

\* sys.cpus(): no core at all, or eight cores of one brand
CpuLists == {<<>>} \cup {[i \in 1..8 |-> b] : b \in CpuBrands}

VmStatOutputs ==
    Failures \cup
    { Ok(<<"Mach Virtual Memory Statistics: (page size of 16384 bytes)",
           "Pages free:                               64.",
           "Pages active:                            512.",
           "Pages inactive:                           64.",
           "Pages purgeable:                           0.">>),
      Ok(<<"Mach Virtual Memory Statistics: (page size of 4096 bytes)",
           "Pages free:                             2048.",
           "Pages inactive:                            0.">>),
      Ok(<<"Mach Virtual Memory Statistics:",
           "Pages free:                             4096.",
           "Pages purgeable:                         512.">>),
      Ok(<<"Mach Virtual Memory Statistics: (page size of 16384 bytes)",
           "Pages free:                                0.",
           "Pages inactive:                            0.">>),
      Ok(<<>>) }

\* A memory.total field of nvidia-smi with the number of MiB it states
NvidiaMemFields ==
    { [text |-> "0", val |-> Some(0)], [text |-> "40", val |-> Some(40)],
      [text |-> "24576", val |-> Some(24576)],
      [text |-> "81920", val |-> Some(81920)],
      [text |-> "[N/A]", val |-> None] }

NvidiaNames == {"NVIDIA GeForce RTX 4090", "NVIDIA A100-SXM4-80GB",
                "NVIDIA Graphics Device"}

NvidiaDevices == [mem : NvidiaMemFields, name : NvidiaNames]

NvidiaLine(d) == d.mem.text \o ", " \o d.name

\* The report for a list of devices; nvidia-smi ends it with an empty line
NvidiaText(ds) == [i \in 1..Len(ds) |-> NvidiaLine(ds[i])] \o <<"">>

\* A tool that prints its usual report and still exits with a nonzero status
Failed(lines) == [status |-> "nonzero_exit", lines |-> lines]

NvidiaOutputs(n) ==
    Failures \cup {Ok(NvidiaText(ds)) : ds \in SeqsUpTo(NvidiaDevices, n)}
    \cup {Failed(<<"24576, NVIDIA GeForce RTX 4090">>)}

\* An AdapterRAM field with the number of MiB it states
AdapterRamFields ==
    { [text |-> "0", val |-> 0], [text |-> "2048", val |-> 2048],
      [text |-> "4095", val |-> 4095], [text |-> "8192", val |-> 8192] }

AdapterNames == {"NVIDIA GeForce RTX 4090", "AMD Radeon RX 6500 XT",
                 "Intel(R) UHD Graphics 630", "Microsoft Basic Display Adapter",
                 "Parsec Virtual Display Adapter", ""}

Adapters == [name : AdapterNames, ram : AdapterRamFields]

\* `$_.Name + '|' + $_.AdapterRAM`
PowerShellText(es) == [i \in 1..Len(es) |-> es[i].name \o "|" \o es[i].ram.text]

\* wmic /format:csv as the source documents it: the header line
\* Node,AdapterRAM,Name, then one line per controller
WmicText(es) ==
    <<"Node,AdapterRAM,Name">>
    \o [i \in 1..Len(es) |-> "DESKTOP," \o es[i].ram.text \o "," \o es[i].name]

PowerShellOutputs(n) ==
    Failures \cup {Ok(PowerShellText(es)) : es \in SeqsUpTo(Adapters, n)}

WmicOutputs(n) ==
    Failures \cup {Ok(WmicText(es)) : es \in SeqsUpTo(Adapters, n)}

RocmMemOutputs ==
    Failures \cup
    { Ok(<<"GPU[0] : vram Total Memory (B): 8192",
           "GPU[0] : vram Total Used Memory (B): 512">>),
      Ok(<<"GPU[0] : vram Total Memory (B): 16384",
           "GPU[1] : vram Total Memory (B): 16384">>),
      Ok(<<"GPU[0] : vram Total Memory (B): 0">>),
      Ok(<<"ERROR: GPU[0] : sysfs file not readable">>),
      Ok(<<>>) }

RocmNameOutputs ==
    Failures \cup
    { Ok(<<"GPU[0] : Card series: Radeon RX 7900 XTX">>),
      Ok(<<"Card series: Radeon RX 7900 XTX">>),
      Ok(<<"Card model: Instinct MI210">>),
      Ok(<<"No product name">>) }

LspciOutputs ==
    Failures \cup
    { Ok(<<"03:00.0 VGA compatible controller: AMD [AMD/ATI] Navi 23 [Radeon RX 6600 XT] (rev c1)">>),
      Ok(<<"00:02.0 VGA compatible controller: Intel Corporation DG2 [Arc A770]">>),
      Ok(<<"00:02.0 Display controller: Intel Corporation UHD Graphics 630">>),
      Ok(<<"00:1f.3 Audio device: Realtek ALC897">>) }

\* Entries of /sys/class/drm with the files of their device directory
DrmEntries ==
    { [name |-> Some("card0"), vendor |-> Some("0x1002"), vram |-> Some("8192")],
      [name |-> Some("card0"), vendor |-> Some("0x1002"), vram |-> None],
      [name |-> Some("card0-DP-1"), vendor |-> Some("0x1002"), vram |-> Some("8192")],
      [name |-> Some("card1"), vendor |-> Some("0x8086"), vram |-> Some("16384")],
      [name |-> Some("card1"), vendor |-> Some("0x8086"), vram |-> None],
      [name |-> Some("renderD128"), vendor |-> None, vram |-> Some("4096")],
      [name |-> None, vendor |-> None, vram |-> None] }

\* read_dir("/sys/class/drm"): an error, or the entries in directory order
DrmDirs(n) == {None} \cup {Some(es) : es \in SeqsUpTo(DrmEntries, n)}

\* Device names as the tools print them: a vendor prefix, a model number and
\* a variant suffix, the data-center parts, and names listing two products
ModelNumbers == {"5090", "5080", "5070", "5060", "4090", "4080", "4070", "4060",
                 "3090", "3080", "3070", "3060", "9070", "7900", "7800", "6500",
                 "5700", "5600"}

DataCenterNames == {"NVIDIA A100-SXM4-80GB", "NVIDIA A100 80GB PCIe", "NVIDIA A10G",
                    "NVIDIA H100 PCIe", "NVIDIA L40S", "Tesla T4",
                    "Radeon Graphics", "GeForce GTX 1650", "Quadro RTX A4000",
                    "Matrox G200eW3"}

DeviceNames ==
    {p \o m \o x : p \in {"", "NVIDIA GeForce RTX ", "AMD Radeon RX "},
                   m \in ModelNumbers, x \in {"", " Ti", " XT", " XTX"}}
    \cup DataCenterNames
    \cup {a \o " / " \o b : a \in {"RTX 5090", "RTX 5070 Ti", "RX 7900 XTX"},
                            b \in {"RTX 5070 Ti", "RTX 3080 Ti", "A100", "RX 5700 XT"}}

SystemProfilerOutputs ==
    Failures \cup
    { Ok(<<"Graphics/Displays:", "      Chipset Model: Apple M2">>),
      Ok(<<"Graphics/Displays:", "      Chipset Model: AMD Radeon Pro 5500M">>),
      Ok(<<>>) }

\* Adapter names in several spellings of letter case, each with the spelling
\* the vendor uses
SpelledNames ==
    { [name |-> "NVIDIA GeForce RTX 4090", base |-> "NVIDIA GeForce RTX 4090"],
      [name |-> "NVIDIA GEFORCE RTX 4090", base |-> "NVIDIA GeForce RTX 4090"],
      [name |-> "nvidia geforce rtx 4090", base |-> "NVIDIA GeForce RTX 4090"],
      [name |-> "nViDiA GeFoRcE RtX 4090", base |-> "NVIDIA GeForce RTX 4090"],
      [name |-> "Quadro P2000", base |-> "Quadro P2000"],
      [name |-> "QUADRO P2000", base |-> "Quadro P2000"],
      [name |-> "quadro p2000", base |-> "Quadro P2000"],
      [name |-> "qUaDrO P2000", base |-> "Quadro P2000"],
      [name |-> "Tesla T4", base |-> "Tesla T4"],
      [name |-> "TESLA T4", base |-> "Tesla T4"],
      [name |-> "tesla t4", base |-> "Tesla T4"],
      [name |-> "tEsLa t4", base |-> "Tesla T4"],
      [name |-> "GeForce GTX 1650", base |-> "GeForce GTX 1650"],
      [name |-> "GEFORCE GTX 1650", base |-> "GeForce GTX 1650"],
      [name |-> "geforce gtx 1650", base |-> "GeForce GTX 1650"],
      [name |-> "gEfOrCe gTx 1650", base |-> "GeForce GTX 1650"],
      [name |-> "AMD Radeon RX 6600", base |-> "AMD Radeon RX 6600"],
      [name |-> "AMD RADEON RX 6600", base |-> "AMD Radeon RX 6600"],
      [name |-> "amd radeon rx 6600", base |-> "AMD Radeon RX 6600"],
      [name |-> "aMd rAdEoN Rx 6600", base |-> "AMD Radeon RX 6600"],
      [name |-> "Radeon Graphics", base |-> "Radeon Graphics"],
      [name |-> "RADEON GRAPHICS", base |-> "Radeon Graphics"],
      [name |-> "radeon graphics", base |-> "Radeon Graphics"],
      [name |-> "rAdEoN GrApHiCs", base |-> "Radeon Graphics"],
      [name |-> "ATI Mobility FireGL", base |-> "ATI Mobility FireGL"],
      [name |-> "ATI MOBILITY FIREGL", base |-> "ATI Mobility FireGL"],
      [name |-> "ati mobility firegl", base |-> "ATI Mobility FireGL"],
      [name |-> "aTi mObIlItY FiReGl", base |-> "ATI Mobility FireGL"],
      [name |-> "Intel Arc A770", base |-> "Intel Arc A770"],
      [name |-> "INTEL ARC A770", base |-> "Intel Arc A770"],
      [name |-> "intel arc a770", base |-> "Intel Arc A770"],
      [name |-> "iNtEl aRc a770", base |-> "Intel Arc A770"],
      [name |-> "Intel Iris Xe", base |-> "Intel Iris Xe"],
      [name |-> "INTEL IRIS XE", base |-> "Intel Iris Xe"],
      [name |-> "intel iris xe", base |-> "Intel Iris Xe"],
      [name |-> "iNtEl iRiS Xe", base |-> "Intel Iris Xe"],
      [name |-> "Arc A380", base |-> "Arc A380"],
      [name |-> "ARC A380", base |-> "Arc A380"],
      [name |-> "arc a380", base |-> "Arc A380"],
      [name |-> "aRc a380", base |-> "Arc A380"],
      [name |-> "Matrox G200eW3", base |-> "Matrox G200eW3"],
      [name |-> "MATROX G200EW3", base |-> "Matrox G200eW3"],
      [name |-> "matrox g200ew3", base |-> "Matrox G200eW3"],
      [name |-> "mAtRoX G200Ew3", base |-> "Matrox G200eW3"],
      [name |-> "Qualcomm Adreno 690", base |-> "Qualcomm Adreno 690"],
      [name |-> "QUALCOMM ADRENO 690", base |-> "Qualcomm Adreno 690"],
      [name |-> "qualcomm adreno 690", base |-> "Qualcomm Adreno 690"],
      [name |-> "qUaLcOmM AdReNo 690", base |-> "Qualcomm Adreno 690"],
      [name |-> "Apple M2", base |-> "Apple M2"],
      [name |-> "APPLE M2", base |-> "Apple M2"],
      [name |-> "apple m2", base |-> "Apple M2"],
      [name |-> "aPpLe m2", base |-> "Apple M2"],
      [name |-> "", base |-> ""] }

\* Lines of a rocm-smi --showmeminfo vram report, each with the number of
\* MiB it states as a total (0: it states none)
RocmLines ==
    { [text |-> "GPU[0] : vram Total Memory (B): 8192", total |-> 8192],
      [text |-> "GPU[1] : vram Total Memory (B): 16384", total |-> 16384],
      [text |-> "vram total memory (b): 4096", total |-> 4096],
      [text |-> "GPU[0] : vram Total Used Memory (B): 512", total |-> 0],
      [text |-> "GPU[0] : vram Total Memory (B): 0", total |-> 0],
      [text |-> "GPU[0] : vram Total Memory (B): N/A", total |-> 0],
      [text |-> "ERROR: GPU[0] : sysfs file not readable", total |-> 0] }

MaxRocmLines == 2       \* lines in a rocm-smi memory report

RocmText(ls) == [i \in 1..Len(ls) |-> ls[i].text]

\* Further entries of /sys/class/drm: a VRAM attribute that reads zero, and
\* an AMD card of 16 GiB
MoreDrmEntries ==
    { [name |-> Some("card0"), vendor |-> Some("0x1002"), vram |-> Some("0")],
      [name |-> Some("card1"), vendor |-> Some("0x8086"), vram |-> Some("0")],
      [name |-> Some("card2"), vendor |-> Some("0x1002"), vram |-> Some("16384")] }

MaxDirEntries == 2      \* entries of /sys/class/drm when a probe is called alone

SysfsDirs(n) == {None} \cup {Some(es) : es \in SeqsUpTo(DrmEntries \cup MoreDrmEntries, n)}

-----------------------------------------------------------------------------
(* SystemSpecs::detect, one step per reading of the machine                 *)

\* The order of the probes in detect_gpu with the AMD probes exchanged.
ProbeOrderSysfsFirst == <<"nvidia", "sysfs", "rocm", "windows", "intel", "apple">>

\* The order of the probes in the body of detect_gpu
ProbeOrder == <<"nvidia", "rocm", "sysfs", "windows", "intel", "apple">>

\* The probe the control reaches when probe p yields nothing; "none" after
\* the last one
next_probe(p) ==
    LET i == CHOOSE j \in 1..Len(ProbeOrder) : ProbeOrder[j] = p IN
    IF i = Len(ProbeOrder) THEN "none" ELSE ProbeOrder[i + 1]

\* A choice that looks at the CPU name only.
cpu_backend_by_name_only(arch, name) ==
    IF contains(to_lowercase(name), "apple") THEN "CpuArm" ELSE "CpuX86"

\* `cfg!(target_arch = "aarch64") || cpu_name.to_lowercase().contains("apple")`
cpu_backend(arch, name) ==
    IF arch = "aarch64" \/ contains(to_lowercase(name), "apple")
    THEN "CpuArm" ELSE "CpuX86"

\* The name given to the unified-memory device
apple_gpu_name(name) ==
    IF contains(to_lowercase(name), "apple") THEN Some(name) ELSE Some("Apple Silicon")

Init ==
    /\ target_arch \in {"aarch64", "x86_64"}
    /\ target_os \in {"linux", "windows", "macos"}
    /\ pc = "start"
    /\ total_ram_gb = Null /\ available_ram_gb = Null
    /\ total_cpu_cores = Null /\ cpu_name = Null
    /\ has_gpu = Null /\ gpu_vram_gb = Null /\ gpu_name = Null
    /\ gpu_count = Null /\ unified_memory = Null /\ backend = Null
    /\ tried = <<>> /\ input = Null
    /\ call = Null /\ ret = Null
    /\ NoThreads

\* Lines 45-63 of detect: the sysinfo readings, the available-memory fallback
\* when available reads 0 with total > 0, the core count and the CPU name
ReadMetrics ==
    /\ pc = "start"
    /\ \E total \in RamReadings, cpus \in CpuLists :
       \E avail \in {a \in RamReadings : a <= total} :
       \E used \in (IF avail = 0 /\ total > 0
                    THEN {Some(u) : u \in {v \in RamReadings : v <= total}}
                    ELSE {None}) :
       \E vm_stat \in (IF used.some /\ ~used_is_plausible(used.val, total)
                       THEN VmStatOutputs ELSE {NotRun}) :
          /\ total_ram_gb' = BytesToGb(total)
          /\ available_ram_gb' =
                IF avail = 0 /\ total > 0
                THEN available_ram_fallback(used.val, total, BytesToGb(total), vm_stat)
                ELSE BytesToGb(avail)
          /\ total_cpu_cores' = Len(cpus)
          /\ cpu_name' = IF cpus # <<>> THEN cpus[1] ELSE "Unknown CPU"
          /\ input' = [step |-> "metrics", total |-> total, avail |-> avail,
                       used |-> used, vm_stat |-> vm_stat]
    /\ pc' = ProbeOrder[1]
    /\ UNCHANGED <<target_arch, target_os, has_gpu, gpu_vram_gb, gpu_name,
                   gpu_count, unified_memory, backend, tried, call, ret>>
    /\ UNCHANGED wsl_vars

\* The six values detect_gpu returns become the snapshot's fields
Return(rec) ==
    /\ has_gpu' = rec.has_gpu
    /\ gpu_vram_gb' = rec.gpu_vram_gb
    /\ gpu_name' = rec.gpu_name
    /\ gpu_count' = rec.gpu_count
    /\ unified_memory' = rec.unified_memory
    /\ backend' = rec.backend
    /\ pc' = "done"

\* What is remembered of a tool's output, or of a directory listing, once the
\* probe that read it has yielded nothing: the status alone
Brief(o) == [status |-> o.status, lines |-> <<>>]
BriefDir(d) == IF d = Null THEN "not_read" ELSE IF d.some THEN "listed" ELSE "read_dir_failed"

\* After probe p: return its record, or go on to the next probe, or return
\* `(false, None, None, 0, false, cpu_backend)` after the last one
Advance(p, result, read, brief) ==
    /\ tried' = Append(tried, [probe |-> p, ok |-> result.some])
    /\ input' = IF result.some \/ next_probe(p) = "none" THEN read ELSE brief
    /\ IF result.some THEN Return(result.val)
       ELSE IF next_probe(p) = "none"
       THEN Return(Record(FALSE, None, None, 0, FALSE,
                          cpu_backend(target_arch, cpu_name)))
       ELSE /\ pc' = next_probe(p)
            /\ UNCHANGED <<has_gpu, gpu_vram_gb, gpu_name, gpu_count,
                           unified_memory, backend>>
    /\ UNCHANGED <<target_arch, target_os, total_ram_gb, available_ram_gb,
                   total_cpu_cores, cpu_name, call, ret>>
    /\ UNCHANGED wsl_vars

ProbeNvidia ==
    /\ pc = "nvidia"
    /\ \E out \in NvidiaOutputs(1) :
          Advance("nvidia", detect_nvidia_gpu(out),
                  [step |-> "nvidia", out |-> out],
                  [step |-> "nvidia", out |-> Brief(out)])

ProbeRocm ==
    /\ pc = "rocm"
    /\ \E mem \in RocmMemOutputs :
       \E name \in (IF mem.status = "ok" THEN RocmNameOutputs ELSE {NotRun}) :
          Advance("rocm", detect_amd_gpu_rocm(mem, name),
                  [step |-> "rocm", out |-> mem, name_out |-> name],
                  [step |-> "rocm", out |-> Brief(mem), name_out |-> Brief(name)])

ProbeSysfs ==
    /\ pc = "sysfs"
    /\ \E dir \in (IF target_os = "linux" THEN DrmDirs(MaxCards) ELSE {Null}) :
       \E lspci \in (IF target_os = "linux"
                        /\ detect_amd_gpu_sysfs(target_os, dir, NotRun).some
                     THEN LspciOutputs ELSE {NotRun}) :
          Advance("sysfs", detect_amd_gpu_sysfs(target_os, dir, lspci),
                  [step |-> "sysfs", dir |-> dir, lspci |-> lspci],
                  [step |-> "sysfs", dir |-> BriefDir(dir), lspci |-> Brief(lspci)])

ProbeWindows ==
    /\ pc = "windows"
    /\ \E ps \in (IF target_os = "windows" THEN PowerShellOutputs(1) ELSE {NotRun}) :
       \E wmic \in (IF ps.status = "nonzero_exit" THEN WmicOutputs(1) ELSE {NotRun}) :
          Advance("windows", detect_gpu_windows(target_os, ps, wmic),
                  [step |-> "windows", out |-> ps, wmic |-> wmic],
                  [step |-> "windows", out |-> Brief(ps), wmic |-> Brief(wmic)])

\* A record that turns the zero of a keyword match into an unknown VRAM.
intel_record_zero_as_unknown(vram) ==
    IF vram.some
    THEN Some(Record(TRUE, IF vram.val > 0 THEN Some(vram.val) ELSE None,
                     Some("Intel Arc"), 1, FALSE, "Sycl"))
    ELSE None

\* A record that leaves the device count at 0.
intel_record_without_count(vram) ==
    IF vram.some
    THEN Some(Record(TRUE, Some(vram.val), Some("Intel Arc"), 0, FALSE, "Sycl"))
    ELSE None

\* `(true, Some(vram), Some("Intel Arc"), 1, false, GpuBackend::Sycl)`
intel_record(vram) ==
    IF vram.some
    THEN Some(Record(TRUE, Some(vram.val), Some("Intel Arc"), 1, FALSE, "Sycl"))
    ELSE None

ProbeIntel ==
    /\ pc = "intel"
    /\ \E dir \in DrmDirs(MaxCards) :
       \E lspci \in (IF intel_reads_lspci(dir) THEN LspciOutputs ELSE {NotRun}) :
          Advance("intel", intel_record(detect_intel_gpu(dir, lspci)),
                  [step |-> "intel", dir |-> dir, lspci |-> lspci],
                  [step |-> "intel", dir |-> BriefDir(dir), lspci |-> Brief(lspci)])

\* detect_gpu hands its available_ram_gb argument to detect_apple_gpu
apple_record(ram_gb, name, output) ==
    LET vram == detect_apple_gpu(ram_gb, output) IN
    IF vram.some
    THEN Some(Record(TRUE, Some(vram.val), apple_gpu_name(name), 1, TRUE, "Metal"))
    ELSE None

ProbeApple ==
    /\ pc = "apple"
    /\ \E out \in SystemProfilerOutputs :
          Advance("apple", apple_record(available_ram_gb, cpu_name, out),
                  [step |-> "apple", out |-> out],
                  [step |-> "apple", out |-> Brief(out)])

Next ==
    \/ ReadMetrics
    \/ ProbeNvidia
    \/ ProbeRocm
    \/ ProbeSysfs
    \/ ProbeWindows
    \/ ProbeIntel
    \/ ProbeApple

Spec == Init /\ [][Next]_vars

-----------------------------------------------------------------------------
(* The functions on their own: each action applies one function to an       *)
(* argument drawn from its bounded set and keeps the argument and the value *)

InitFn ==
    /\ target_arch = "x86_64" /\ target_os = "windows"
    /\ pc = "fn"
    /\ total_ram_gb = Null /\ available_ram_gb = Null
    /\ total_cpu_cores = Null /\ cpu_name = Null
    /\ has_gpu = Null /\ gpu_vram_gb = Null /\ gpu_name = Null
    /\ gpu_count = Null /\ unified_memory = Null /\ backend = Null
    /\ tried = <<>> /\ input = Null
    /\ call = Null /\ ret = Null
    /\ NoThreads

Apply(c, r) ==
    /\ call' = c
    /\ ret' = r
    /\ pc' = "returned"
    /\ UNCHANGED <<target_arch, target_os, total_ram_gb, available_ram_gb,
                   total_cpu_cores, cpu_name, has_gpu, gpu_vram_gb,
                   gpu_name, gpu_count, unified_memory, backend, tried, input>>
    /\ UNCHANGED wsl_vars

CallNvidia ==
    /\ pc = "fn"
    /\ \E ds \in SeqsUpTo(NvidiaDevices, MaxDevices) :
        Apply([fn |-> "detect_nvidia_gpu", devices |-> ds],
              detect_nvidia_gpu(Ok(NvidiaText(ds))))

CallParseWindows ==
    /\ pc = "fn"
    /\ \E es \in SeqsUpTo(Adapters, MaxEntries) :
        Apply([fn |-> "parse_windows_gpu_entries", entries |-> es],
              parse_windows_gpu_entries(PowerShellText(es)))

CallWmic ==
    /\ pc = "fn"
    /\ \E es \in SeqsUpTo(Adapters, MaxEntries) :
        Apply([fn |-> "detect_gpu_windows_wmic", entries |-> es],
              detect_gpu_windows_wmic(Ok(WmicText(es))))

CallEstimate ==
    /\ pc = "fn"
    /\ \E name \in DeviceNames :
        Apply([fn |-> "estimate_vram_from_name", name |-> name],
              estimate_vram_from_name(name))

CallInferBackend ==
    /\ pc = "fn"
    /\ \E n \in SpelledNames :
        Apply([fn |-> "infer_gpu_backend", name |-> n.name, base |-> n.base],
              infer_gpu_backend(n.name))

\* Adapter names as the PCI database and the vendors' drivers print them,
\* several of them holding the words of more than one vendor
PciStyleNames ==
    { "Intel Corporation UHD Graphics",
      "Intel Corporation Alder Lake-P Integrated Graphics Controller",
      "Intel(R) UHD Graphics 630",
      "Intel(R) Iris(R) Xe Graphics",
      "Intel Kaby Lake-G with Radeon RX Vega M",
      "Intel(R) HD Graphics with NVIDIA Optimus",
      "NVIDIA Corporation GA102 [GeForce RTX 3090]",
      "NVIDIA Corporation TU104GL [Tesla T4]",
      "Quadro RTX 4000 on AMD Ryzen",
      "GeForce GTX 1650 with Intel UHD",
      "Advanced Micro Devices, Inc. [AMD/ATI] Navi 23",
      "Matrox Electronics Systems Ltd. G200eW3" }

CallInferBackendPci ==
    /\ pc = "fn"
    /\ \E name \in PciStyleNames :
        Apply([fn |-> "infer_gpu_backend(pci)", name |-> name],
              infer_gpu_backend(name))

CallRocm ==
    /\ pc = "fn"
    /\ \E ls \in SeqsUpTo(RocmLines, MaxRocmLines), name_output \in RocmNameOutputs :
        Apply([fn |-> "detect_amd_gpu_rocm", lines |-> ls, name_output |-> name_output],
              detect_amd_gpu_rocm(Ok(RocmText(ls)), name_output))

CallSysfs ==
    /\ pc = "fn"
    /\ \E os \in {"linux", "windows"}, dir \in SysfsDirs(MaxDirEntries),
          lspci \in LspciOutputs :
        Apply([fn |-> "detect_amd_gpu_sysfs", os |-> os, dir |-> dir, lspci |-> lspci],
              detect_amd_gpu_sysfs(os, dir, lspci))

CallIntel ==
    /\ pc = "fn"
    /\ \E dir \in SysfsDirs(MaxDirEntries), lspci \in LspciOutputs :
        Apply([fn |-> "detect_intel_gpu", dir |-> dir, lspci |-> lspci],
              intel_record(detect_intel_gpu(dir, lspci)))

NextFn ==
    \/ CallEstimate
    \/ CallInferBackend
    \/ CallInferBackendPci
    \/ CallRocm
    \/ CallSysfs
    \/ CallIntel
    \/ CallNvidia
    \/ CallParseWindows
    \/ CallWmic

SpecFn == InitFn /\ [][NextFn]_vars

-----------------------------------------------------------------------------
(* is_running_in_wsl: a process-wide OnceLock<bool> filled by                *)
(* detect_running_in_wsl, asked for by several threads.  OnceLock::          *)
(* get_or_init returns the value when it is set; otherwise it enters the     *)
(* lock's Once, where one caller runs the initializer while the others wait, *)
(* and then reads the value.                                                 *)

NumThreads == 2         \* threads that call is_running_in_wsl
MaxCalls == 2           \* calls each thread makes
MaxEnvChanges == 1      \* times the process changes its environment variables

Threads == 1..NumThreads

\* /proc/sys/kernel/osrelease and /proc/version: the text, or None when the
\* file cannot be read
ProcFiles ==
    { [osrelease |-> None, version |-> None],
      [osrelease |-> Some("5.15.153.1-microsoft-standard-WSL2"),
       version |-> Some("Linux version 5.15.153.1-microsoft-standard-WSL2")],
      [osrelease |-> Some("4.4.0-19041-generic"),
       version |-> Some("Linux version 4.4.0-19041-Microsoft (Microsoft@Microsoft.com)")],
      [osrelease |-> Some("6.8.0-45-generic"),
       version |-> Some("Linux version 6.8.0-45-generic (buildd@lcy02)")] }

\* The environment variables that are set, and the two files
WslEnvs ==
    { [WSL_INTEROP |-> i, WSL_DISTRO_NAME |-> d, files |-> f] :
        i \in BOOLEAN, d \in BOOLEAN, f \in ProcFiles }

\* `read_to_string(path).map(|text| text.to_ascii_lowercase()
\*      .contains("microsoft")).unwrap_or(false)`
mentions_microsoft(file) ==
    IF file.some THEN contains(to_lowercase(file.val), "microsoft") ELSE FALSE

detect_running_in_wsl(os, e) ==
    IF os # "linux" THEN FALSE
    ELSE IF e.WSL_INTEROP \/ e.WSL_DISTRO_NAME THEN TRUE
    ELSE mentions_microsoft(e.files.osrelease) \/ mentions_microsoft(e.files.version)

\* An initializer may start whenever the value is not yet stored.
may_initialize_while_running(state) == state \in {"incomplete", "running"}

\* Once: only the caller that finds the Once incomplete runs the initializer
may_initialize(state) == state = "incomplete"

InitWsl ==
    /\ target_arch = "x86_64" /\ target_os \in {"linux", "windows"}
    /\ pc = "threads"
    /\ total_ram_gb = Null /\ available_ram_gb = Null
    /\ total_cpu_cores = Null /\ cpu_name = Null
    /\ has_gpu = Null /\ gpu_vram_gb = Null /\ gpu_name = Null
    /\ gpu_count = Null /\ unified_memory = Null /\ backend = Null
    /\ tried = <<>> /\ input = Null
    /\ call = Null /\ ret = Null
    /\ IS_WSL = None /\ once = "incomplete"
    /\ env \in WslEnvs
    /\ thread_pc = [t \in Threads |-> "idle"]
    /\ detected = [t \in Threads |-> None]
    /\ got = [t \in Threads |-> None]
    /\ calls = [t \in Threads |-> 0]
    /\ executions = 0 /\ env_changes = 0

\* is_running_in_wsl is called: get_or_init returns the value if it is set
CallIsWsl(t) ==
    /\ thread_pc[t] = "idle" /\ calls[t] < MaxCalls
    /\ calls' = [calls EXCEPT ![t] = @ + 1]
    /\ IF IS_WSL.some
       THEN /\ got' = [got EXCEPT ![t] = IS_WSL]
            /\ UNCHANGED thread_pc
       ELSE /\ thread_pc' = [thread_pc EXCEPT ![t] = "initialize"]
            /\ UNCHANGED got
    /\ UNCHANGED <<IS_WSL, once, env, detected, executions, env_changes>>
    /\ UNCHANGED <<detect_vars, target_os>>

\* The thread enters the Once: it becomes the initializer, or finds the value
\* stored meanwhile; while another thread is initializing it waits
EnterOnce(t) ==
    /\ thread_pc[t] = "initialize"
    /\ \/ /\ may_initialize(once)
          /\ once' = "running"
          /\ executions' = executions + 1
          /\ thread_pc' = [thread_pc EXCEPT ![t] = "detect"]
          /\ UNCHANGED got
       \/ /\ once = "complete"
          /\ got' = [got EXCEPT ![t] = IS_WSL]
          /\ thread_pc' = [thread_pc EXCEPT ![t] = "idle"]
          /\ UNCHANGED <<once, executions>>
    /\ UNCHANGED <<IS_WSL, env, detected, calls, env_changes>>
    /\ UNCHANGED <<detect_vars, target_os>>

\* The initializer runs detect_running_in_wsl on what the process shows now
RunDetect(t) ==
    /\ thread_pc[t] = "detect"
    /\ detected' = [detected EXCEPT ![t] = Some(detect_running_in_wsl(target_os, env))]
    /\ thread_pc' = [thread_pc EXCEPT ![t] = "store"]
    /\ UNCHANGED <<IS_WSL, once, env, got, calls, executions, env_changes>>
    /\ UNCHANGED <<detect_vars, target_os>>

\* The result is written to the cell, the Once completes, and get_or_init
\* returns the cell's value
StoreResult(t) ==
    /\ thread_pc[t] = "store"
    /\ IS_WSL' = detected[t]
    /\ once' = "complete"
    /\ got' = [got EXCEPT ![t] = detected[t]]
    /\ detected' = [detected EXCEPT ![t] = None]
    /\ thread_pc' = [thread_pc EXCEPT ![t] = "idle"]
    /\ UNCHANGED <<env, calls, executions, env_changes>>
    /\ UNCHANGED <<detect_vars, target_os>>

\* The process sets or removes WSL_DISTRO_NAME
ChangeEnv ==
    /\ pc = "threads" /\ env_changes < MaxEnvChanges
    /\ env' = [env EXCEPT !.WSL_DISTRO_NAME = ~@]
    /\ env_changes' = env_changes + 1
    /\ UNCHANGED <<IS_WSL, once, thread_pc, detected, got, calls, executions>>
    /\ UNCHANGED <<detect_vars, target_os>>

NextWsl ==
    \/ \E t \in Threads : CallIsWsl(t)
    \/ \E t \in Threads : EnterOnce(t)
    \/ \E t \in Threads : RunDetect(t)
    \/ \E t \in Threads : StoreResult(t)
    \/ ChangeEnv

SpecWsl == InitWsl /\ [][NextWsl]_vars

-----------------------------------------------------------------------------
(* Properties of SystemSpecs::detect (specification Spec)                   *)

Done == pc = "done"

\* The probe just attempted, once one has been
LastTried == tried[Len(tried)]

\* C1 as the specification states it: whenever the unified-memory probe
\* succeeds, the snapshot has unified_memory = true and gpu_vram_gb equal to
\* its own total_ram_gb, whatever the available-RAM reading is.
C1_UnifiedVramIsTotalRam ==
    (Done /\ LastTried.probe = "apple" /\ LastTried.ok)
        => (unified_memory = TRUE /\ gpu_vram_gb = Some(total_ram_gb))

\* C2: the probes are tried in the order NVIDIA CLI, rocm-smi, AMD sysfs,
\* Windows query, Intel, Apple; no probe is attempted after one has
\* succeeded; the record returned is the record of the first probe that
\* succeeded, and the absence record only after all six deferred.
ChainOrder == <<"nvidia", "rocm", "sysfs", "windows", "intel", "apple">>

ProbeResult(p, read) ==
    CASE p = "nvidia" -> detect_nvidia_gpu(read.out)
      [] p = "rocm" -> detect_amd_gpu_rocm(read.out, read.name_out)
      [] p = "sysfs" -> detect_amd_gpu_sysfs(target_os, read.dir, read.lspci)
      [] p = "windows" -> detect_gpu_windows(target_os, read.out, read.wmic)
      [] p = "intel" -> intel_record(detect_intel_gpu(read.dir, read.lspci))
      [] p = "apple" -> apple_record(available_ram_gb, cpu_name, read.out)

Returned == Record(has_gpu, gpu_vram_gb, gpu_name, gpu_count, unified_memory, backend)

C2_FirstSuccessWins ==
    /\ Len(tried) <= Len(ChainOrder)
    /\ \A i \in 1..Len(tried) : tried[i].probe = ChainOrder[i]
    /\ \A i \in 1..(Len(tried) - 1) : ~tried[i].ok
    /\ (pc \notin {"start", "done"}) => pc = ChainOrder[Len(tried) + 1]
    /\ Done => IF LastTried.ok
               THEN /\ input.step = LastTried.probe
                    /\ Some(Returned) = ProbeResult(LastTried.probe, input)
               ELSE /\ Len(tried) = Len(ChainOrder)
                    /\ has_gpu = FALSE

\* C2 witness: the fifth probe succeeds after the first four deferred
C2_Witness ==
    Done /\ Len(tried) = 5 /\ LastTried.ok /\ backend = "Sycl"

\* C4 as the specification states it: with every probe deferring, the
\* backend is CpuArm when the CPU name contains "apple" (in any letter case)
\* and CpuX86 otherwise, whatever the build target architecture is.
C4_CpuBackendByNameAlone ==
    (Done /\ has_gpu = FALSE)
        => backend = (IF contains(to_lowercase(cpu_name), "apple")
                      THEN "CpuArm" ELSE "CpuX86")

\* C4, amended: with every probe deferring, the backend is CpuArm when the
\* build target is aarch64 or the CPU name contains "apple" (in any letter
\* case), and CpuX86 otherwise; on every other build target the name alone
\* decides.
C4_CpuBackendByTargetOrName ==
    (Done /\ has_gpu = FALSE)
        => /\ backend \in {"CpuArm", "CpuX86"}
           /\ backend = "CpuArm"
                <=> (target_arch = "aarch64"
                     \/ contains(to_lowercase(cpu_name), "apple"))

\* C4 witness: an aarch64 build on a CPU whose name has no "apple" in it
C4_Witness ==
    /\ Done /\ has_gpu = FALSE /\ target_arch = "aarch64"
    /\ cpu_name = "Intel(R) Core(TM) i7-9750H" /\ backend = "CpuArm"

\* C5 as the specification states it: when the fallback is entered (available
\* reads 0, total > 0) the available memory it returns is strictly positive
\* and does not exceed total memory, for every used-memory reading and every
\* vm_stat output.
C5_FallbackWithinTotal ==
    (input # Null /\ input.step = "metrics" /\ input.avail = 0 /\ input.total > 0)
        => (available_ram_gb > 0 /\ available_ram_gb <= total_ram_gb)

HardFailures == {"launch_fail", "nonzero_exit", "bad_utf8"}

\* A memory report of rocm-smi with text but without a single numeric word
RocmUnparsable(lines) ==
    /\ lines # <<>>
    /\ \A i \in 1..Len(lines) : parsed_words(split_whitespace(lines[i])) = <<>>

\* A report of nvidia-smi with text in which no line starts with a numeric
\* field
NvidiaUnparsable(lines) ==
    /\ lines # <<>>
    /\ \A i \in 1..Len(lines) :
          \/ Len(trim(lines[i])) = 0
          \/ ~parse_f64(trim(splitn2(trim(lines[i]), ",")[1])).some

\* A report of system_profiler with text that does not mention Apple at all
AppleUnparsable(lines) ==
    /\ lines # <<>>
    /\ \A i \in 1..Len(lines) : ~contains(to_lowercase(lines[i]), "apple")

Populated ==
    /\ total_ram_gb \in Nat /\ available_ram_gb \in Nat
    /\ total_cpu_cores \in Nat /\ cpu_name \in STRING
    /\ has_gpu \in BOOLEAN
    /\ gpu_vram_gb.some \in BOOLEAN /\ (gpu_vram_gb.some => gpu_vram_gb.val \in Nat)
    /\ gpu_name.some \in BOOLEAN /\ gpu_count \in Nat
    /\ unified_memory \in BOOLEAN /\ backend \in Backends

\* C3 as the specification states it, for the probes that run nvidia-smi and
\* rocm-smi: on a launch failure, a nonzero exit status, an invalid encoding
\* or unparsable content of the tool, the probe yields nothing.
C3_EveryFailureYieldsNothing ==
    (tried # <<>> /\ input.step \in {"nvidia", "rocm"}
       /\ \/ input.out.status \in HardFailures
          \/ /\ input.out.status = "ok"
             /\ IF input.step = "nvidia" THEN NvidiaUnparsable(input.out.lines)
                ELSE RocmUnparsable(input.out.lines))
        => ~LastTried.ok

\* C3, amended: a launch failure, a nonzero exit status or an invalid
\* encoding of nvidia-smi, of rocm-smi --showmeminfo, of system_profiler or
\* of wmic makes the probe yield nothing, and so do a launch failure or an
\* invalid encoding of the PowerShell query (its nonzero exit status hands
\* over to wmic), a failed read of /sys/class/drm in the AMD scan, and a
\* failed lspci in the Intel probe unless a VRAM attribute was read;
\* unparsable content yields nothing for nvidia-smi and system_profiler, but
\* rocm-smi --showmeminfo that exits successfully always yields a ROCm
\* record, with one device when no total could be parsed.  After a probe that
\* yields nothing the next probe of the chain is the one attempted, and the
\* snapshot returned has every field populated.
C3_FailuresAreSoft ==
    /\ tried # <<>> =>
        /\ (input.step \in {"nvidia", "rocm", "apple"}
              /\ input.out.status \in HardFailures) => ~LastTried.ok
        /\ (input.step = "windows"
              /\ \/ input.out.status \in {"launch_fail", "bad_utf8"}
                 \/ /\ input.out.status = "nonzero_exit"
                    /\ input.wmic.status \in HardFailures) => ~LastTried.ok
        /\ (input.step = "nvidia" /\ input.out.status = "ok" /\ LastTried.ok)
              => ~NvidiaUnparsable(input.out.lines)
        /\ (input.step = "apple" /\ input.out.status = "ok" /\ LastTried.ok)
              => ~AppleUnparsable(input.out.lines)
        /\ (input.step = "sysfs" /\ LastTried.ok) => input.dir.some
        /\ (input.step = "intel" /\ LastTried.ok /\ input.lspci.status # "ok")
              => gpu_vram_gb.val > 0
        /\ (input.step = "rocm" /\ input.out.status = "ok")
              => /\ LastTried.ok /\ backend = "Rocm"
                 /\ RocmUnparsable(input.out.lines) => gpu_count = 1
        /\ (~LastTried.ok /\ Len(tried) < Len(ChainOrder))
              => pc = ChainOrder[Len(tried) + 1]
    /\ Done => Populated

\* C3 witness: all six probes yielded nothing, the last one because the
\* output of system_profiler was not valid UTF-8, and detect returned
C3_Witness ==
    /\ Done /\ Len(tried) = 6 /\ ~LastTried.ok
    /\ input.out.status = "bad_utf8" /\ Populated

-----------------------------------------------------------------------------
(* Properties of the functions (specification SpecFn)                       *)

Returned_(fn) == pc = "returned" /\ call.fn = fn

RECURSIVE SumMb(_)
SumMb(ds) == IF ds = <<>> THEN 0 ELSE Head(ds).mem.val.val + SumMb(Tail(ds))

Parsable(ds) == SelectSeq(ds, LAMBDA d : d.mem.val.some)

\* C6 as the specification states it: when nvidia-smi reports n >= 1 device
\* lines, each with a parsable amount, the record has device count n and VRAM
\* equal to the sum of the n amounts.
C6_VramIsSumOfDevices ==
    (Returned_("detect_nvidia_gpu") /\ Len(call.devices) >= 1
       /\ Parsable(call.devices) = call.devices)
        => /\ ret.some
           /\ ret.val.gpu_count = Len(call.devices)
           /\ ret.val.gpu_vram_gb = Some(5 * SumMb(call.devices))

\* What the table holds for the names nvidia-smi prints here, in GiB
NvidiaNameGb(name) ==
    CASE name = "NVIDIA GeForce RTX 4090" -> 24
      [] name = "NVIDIA A100-SXM4-80GB" -> 80
      [] name = "NVIDIA Graphics Device" -> 0

\* C6, amended: when nvidia-smi reports n >= 1 device lines with a parsable
\* amount, the record has device count n, and VRAM equal to the sum of the n
\* amounts provided that sum is at least 0.1 GiB; below 0.1 GiB (all devices
\* reporting 0, say) the VRAM is the table's estimate for the first device's
\* name, or unknown when that estimate is 0.  Lines whose amount does not
\* parse contribute to neither the sum nor the count, and a report without a
\* parsable line yields nothing.
C6_VramIsSumUnlessNearZero ==
    Returned_("detect_nvidia_gpu") =>
        LET good == Parsable(call.devices)
            sum == 5 * SumMb(good)
            est == 5120 * NvidiaNameGb(good[1].name)
        IN  IF good = <<>> THEN ret = None
            ELSE /\ ret.some
                 /\ ret.val.gpu_count = Len(good)
                 /\ ret.val.backend = "Cuda"
                 /\ sum >= 512 => ret.val.gpu_vram_gb = Some(sum)
                 /\ sum < 512 => ret.val.gpu_vram_gb
                                    = (IF est > 0 THEN Some(est) ELSE None)

\* C6 witness: three devices of 24 GiB each give count 3 and 72 GiB
C6_Witness ==
    /\ Returned_("detect_nvidia_gpu") /\ Len(call.devices) = 3
    /\ \A i \in 1..3 : call.devices[i].mem.text = "24576"
    /\ ret.val.gpu_count = 3 /\ ret.val.gpu_vram_gb = Some(3 * 24 * 5120)

\* The adapters the filter is meant to drop, among the names reported here
ExcludedAdapterNames == {"Microsoft Basic Display Adapter",
                         "Parsec Virtual Display Adapter"}

WindowsParsers == {"parse_windows_gpu_entries", "detect_gpu_windows_wmic"}

\* C7: in both Windows parsers an entry whose name contains "microsoft",
\* "basic" or "virtual" in any letter case is never the selected device,
\* whatever RAM it reports, and a list of such entries only yields no GPU.
C7_ExcludedNeverSelected ==
    (pc = "returned" /\ call.fn \in WindowsParsers) =>
        /\ ret.some => ret.val.gpu_name.val \notin ExcludedAdapterNames
        /\ (\A i \in 1..Len(call.entries) :
                call.entries[i].name \in ExcludedAdapterNames) => ret = None

\* C7 witness: a basic display adapter reporting the most RAM is passed over
\* for the real adapter listed after it
C7_Witness ==
    /\ Returned_("parse_windows_gpu_entries") /\ Len(call.entries) = 2
    /\ call.entries[1].name = "Microsoft Basic Display Adapter"
    /\ call.entries[1].ram.val = 8192
    /\ call.entries[2].name = "AMD Radeon RX 6500 XT"
    /\ call.entries[2].ram.val = 2048
    /\ ret.val.gpu_name = Some("AMD Radeon RX 6500 XT")

\* C8: a name that contains a variant token and no token listed earlier in
\* the table resolves to the variant's capacity, not to the capacity of the
\* shorter token the variant contains.
VariantPairs ==
    { [variant |-> "5070 ti", base |-> "5070", gb |-> 16, base_gb |-> 12,
       earlier |-> {"5090", "5080"}],
      [variant |-> "5060 ti", base |-> "5060", gb |-> 16, base_gb |-> 8,
       earlier |-> {"5090", "5080", "5070 ti", "5070"}],
      [variant |-> "4070 ti", base |-> "4070", gb |-> 12, base_gb |-> 12,
       earlier |-> {"5090", "5080", "5070 ti", "5070", "5060 ti", "5060",
                    "4090", "4080"}],
      [variant |-> "4060 ti", base |-> "4060", gb |-> 16, base_gb |-> 8,
       earlier |-> {"5090", "5080", "5070 ti", "5070", "5060 ti", "5060",
                    "4090", "4080", "4070 ti", "4070"}],
      [variant |-> "3080 ti", base |-> "3080", gb |-> 12, base_gb |-> 10,
       earlier |-> {"5090", "5080", "5070 ti", "5070", "5060 ti", "5060",
                    "4090", "4080", "4070 ti", "4070", "4060 ti", "4060",
                    "3090"}],
      [variant |-> "3060 ti", base |-> "3060", gb |-> 8, base_gb |-> 12,
       earlier |-> {"5090", "5080", "5070 ti", "5070", "5060 ti", "5060",
                    "4090", "4080", "4070 ti", "4070", "4060 ti", "4060",
                    "3090", "3080 ti", "3080", "3070"}],
      [variant |-> "a100", base |-> "a10", gb |-> 80, base_gb |-> 24,
       earlier |-> {"5090", "5080", "5070 ti", "5070", "5060 ti", "5060",
                    "4090", "4080", "4070 ti", "4070", "4060 ti", "4060",
                    "3090", "3080 ti", "3080", "3070", "3060 ti", "3060",
                    "h100"}],
      [variant |-> "9070 xt", base |-> "9070", gb |-> 16, base_gb |-> 12,
       earlier |-> {"5090", "5080", "5070 ti", "5070", "5060 ti", "5060",
                    "4090", "4080", "4070 ti", "4070", "4060 ti", "4060",
                    "3090", "3080 ti", "3080", "3070", "3060 ti", "3060",
                    "h100", "a100", "l40", "a10", "t4"}],
      [variant |-> "7900 xtx", base |-> "7900", gb |-> 24, base_gb |-> 20,
       earlier |-> {"5090", "5080", "5070 ti", "5070", "5060 ti", "5060",
                    "4090", "4080", "4070 ti", "4070", "4060 ti", "4060",
                    "3090", "3080 ti", "3080", "3070", "3060 ti", "3060",
                    "h100", "a100", "l40", "a10", "t4", "9070 xt", "9070"}],
      [variant |-> "5700 xt", base |-> "5700", gb |-> 8, base_gb |-> 8,
       earlier |-> {"5090", "5080", "5070 ti", "5070", "5060 ti", "5060",
                    "4090", "4080", "4070 ti", "4070", "4060 ti", "4060",
                    "3090", "3080 ti", "3080", "3070", "3060 ti", "3060",
                    "h100", "a100", "l40", "a10", "t4", "9070 xt", "9070",
                    "7900 xtx", "7900", "7800", "7700", "7600", "6950",
                    "6900", "6800", "6750", "6700", "6650", "6600", "6500"}] }

C8_VariantBeforeBase ==
    Returned_("estimate_vram_from_name") =>
        \A pair \in VariantPairs :
            (/\ contains(to_lowercase(call.name), pair.variant)
             /\ \A tok \in pair.earlier : ~contains(to_lowercase(call.name), tok))
                => ret = 5120 * pair.gb

\* C8 witness: a 5070 Ti, whose name also contains "5070", gets 16 GiB
C8_Witness ==
    /\ Returned_("estimate_vram_from_name")
    /\ call.name = "NVIDIA GeForce RTX 5070 Ti" /\ ret = 16 * 5120

\* The entries a parser keeps as candidates: the PowerShell parser also drops
\* an entry without a name
Candidates(fn, es) ==
    SelectSeq(es, LAMBDA e : /\ e.name \notin ExcludedAdapterNames
                             /\ (fn = "parse_windows_gpu_entries" => e.name # ""))

\* The first candidate that reports the largest RAM
FirstLargest(cs) ==
    LET i == CHOOSE j \in 1..Len(cs) :
                 /\ \A k \in 1..Len(cs) : cs[k].ram.val <= cs[j].ram.val
                 /\ \A k \in 1..(j - 1) : cs[k].ram.val < cs[j].ram.val
    IN  cs[i]

\* What the table holds for the adapter names reported here, in GiB
AdapterNameGb(name) ==
    CASE name = "NVIDIA GeForce RTX 4090" -> 24
      [] name = "AMD Radeon RX 6500 XT" -> 4
      [] OTHER -> 0

\* C9: for the selected device with raw reading r GiB and table estimate e:
\* r <= 4.1 and e > 4.1 give e; r > 4.1 gives r whatever e is; 0.1 <= r <= 4.1
\* and e <= 4.1 give r.  (4.1 GiB = 20992 and 0.1 GiB = 512 units.)
C9_CappedReadingTakesEstimate ==
    (pc = "returned" /\ call.fn \in WindowsParsers
       /\ Candidates(call.fn, call.entries) # <<>>) =>
        LET sel == FirstLargest(Candidates(call.fn, call.entries))
            r == 5 * sel.ram.val
            e == 5120 * AdapterNameGb(sel.name)
        IN  /\ ret.some
            /\ (r <= 20992 /\ e > 20992) => ret.val.gpu_vram_gb = Some(e)
            /\ r > 20992 => ret.val.gpu_vram_gb = Some(r)
            /\ (512 <= r /\ r <= 20992 /\ e <= 20992) => ret.val.gpu_vram_gb = Some(r)

\* C9 witness: an RTX 4090 whose AdapterRAM reads the 32-bit cap gets 24 GiB,
\* through the wmic parser
C9_Witness ==
    /\ Returned_("detect_gpu_windows_wmic") /\ Len(call.entries) = 1
    /\ call.entries[1].name = "NVIDIA GeForce RTX 4090"
    /\ call.entries[1].ram.val = 4095
    /\ ret.val.gpu_vram_gb = Some(24 * 5120)

\* The entries whose name holds none of the three excluded words
NonExcluded(es) == SelectSeq(es, LAMBDA e : e.name \notin ExcludedAdapterNames)

\* C10 as stated: among the non-excluded entries the selected device is the
\* first in input order of those reporting the largest RAM, also when every
\* value is zero.
C10_FirstOfLargestNonExcluded ==
    (pc = "returned" /\ call.fn \in WindowsParsers
       /\ NonExcluded(call.entries) # <<>>) =>
        /\ ret.some
        /\ ret.val.gpu_name = Some(FirstLargest(NonExcluded(call.entries)).name)

\* C10: among the entries that are not excluded and that, in the primary
\* parser, have a name, the selected device is the first in input order of
\* those reporting the largest RAM, also when every value is zero; the legacy
\* parser keeps an entry without a name as a candidate; without a candidate
\* there is no device.
C10_FirstOfLargestSelected ==
    (pc = "returned" /\ call.fn \in WindowsParsers) =>
        LET cs == Candidates(call.fn, call.entries) IN
        IF cs = <<>> THEN ret = None
        ELSE /\ ret.some
             /\ ret.val.gpu_name = Some(FirstLargest(cs).name)

\* C10 witness: two adapters that both report zero, the first one selected
C10_Witness ==
    /\ Returned_("parse_windows_gpu_entries") /\ Len(call.entries) = 2
    /\ call.entries[1].name = "Intel(R) UHD Graphics 630"
    /\ call.entries[2].name = "NVIDIA GeForce RTX 4090"
    /\ call.entries[1].ram.val = 0 /\ call.entries[2].ram.val = 0
    /\ ret.val.gpu_name = Some("Intel(R) UHD Graphics 630")

GpuBackends == {"Cuda", "Rocm", "Vulkan", "Sycl", "Metal"}

\* The vendor of each name of the pool, by the words in it
VendorBackend(base) ==
    CASE base \in {"NVIDIA GeForce RTX 4090", "Quadro P2000", "Tesla T4",
                   "GeForce GTX 1650"} -> "Cuda"
      [] base \in {"AMD Radeon RX 6600", "Radeon Graphics",
                   "ATI Mobility FireGL"} -> "Vulkan"
      [] base \in {"Intel Arc A770", "Intel Iris Xe", "Arc A380"} -> "Sycl"
      [] OTHER -> "Vulkan"

\* The names of the pool that hold none of the vendor or brand keywords
KeywordFreeNames == {"Matrox G200eW3", "Qualcomm Adreno 690", "Apple M2", ""}

\* C11: infer_gpu_backend returns one GPU backend for every name, never a CPU
\* backend; a name without any vendor or brand keyword is classified Vulkan;
\* every spelling of a name in another letter case receives the backend of
\* that name.
C11_InferTotalCaseInsensitive ==
    Returned_("infer_gpu_backend") =>
        /\ ret \in GpuBackends
        /\ ret = VendorBackend(call.base)
        /\ call.base \in KeywordFreeNames => ret = "Vulkan"

\* C11 witness: an NVIDIA name spelled in upper case is classified Cuda
C11_Witness ==
    /\ Returned_("infer_gpu_backend")
    /\ call.name = "QUADRO P2000" /\ call.base = "Quadro P2000" /\ ret = "Cuda"

RECURSIVE SumTotals(_)
SumTotals(ls) == IF ls = <<>> THEN 0 ELSE Head(ls).total + SumTotals(Tail(ls))

\* What the table holds for the product name each rocm-smi --showproductname
\* report yields, in GiB (0 also when it yields no name)
RocmNameGb(name_output) ==
    IF name_output = Ok(<<"Card series: Radeon RX 7900 XTX">>) THEN 24 ELSE 0

\* What the table holds for the AMD name each lspci listing yields, in GiB
LspciNameGb(lspci) ==
    IF lspci = Ok(<<"03:00.0 VGA compatible controller: AMD [AMD/ATI] Navi 23 [Radeon RX 6600 XT] (rev c1)">>)
    THEN 8 ELSE 0

\* The card entries of the AMD vendor, in directory order
AmdCards(es) ==
    SelectSeq(es, LAMBDA e : /\ e.name \in {Some("card0"), Some("card1"), Some("card2")}
                             /\ e.vendor = Some("0x1002"))

\* The MiB an entry's mem_info_vram_total states (0: missing or zero)
VramAttrMb(e) ==
    CASE e.vram = Some("4096") -> 4096
      [] e.vram = Some("8192") -> 8192
      [] e.vram = Some("16384") -> 16384
      [] OTHER -> 0

FallbackGb(gb) == IF gb > 0 THEN Some(5120 * gb) ELSE None

\* C12: in probes 1-3 a trustworthy direct reading (nvidia-smi sum of at
\* least 0.1 GiB, rocm-smi summed total above 0, sysfs attribute present and
\* above 0) is the reported VRAM whatever the device name is; otherwise the
\* VRAM is the table's estimate for the name, and unknown when that is 0.
C12_TableIsOnlyFallback ==
    /\ (Returned_("detect_nvidia_gpu") /\ Parsable(call.devices) # <<>>) =>
          LET good == Parsable(call.devices)
              direct == 5 * SumMb(good)
          IN  ret.val.gpu_vram_gb = (IF direct >= 512 THEN Some(direct)
                                     ELSE FallbackGb(NvidiaNameGb(good[1].name)))
    /\ Returned_("detect_amd_gpu_rocm") =>
          LET direct == 5 * SumTotals(call.lines)
          IN  ret.val.gpu_vram_gb = (IF direct > 0 THEN Some(direct)
                                     ELSE FallbackGb(RocmNameGb(call.name_output)))
    /\ (Returned_("detect_amd_gpu_sysfs") /\ ret.some) =>
          LET direct == 5 * VramAttrMb(AmdCards(call.dir.val)[1])
          IN  ret.val.gpu_vram_gb = (IF direct > 0 THEN Some(direct)
                                     ELSE FallbackGb(LspciNameGb(call.lspci)))

\* C12 witness: rocm-smi sums 16 GiB for a card the table lists with 24 GiB,
\* and 16 GiB is reported
C12_Witness ==
    /\ Returned_("detect_amd_gpu_rocm")
    /\ SumTotals(call.lines) = 16384 /\ RocmNameGb(call.name_output) = 24
    /\ ret.val.gpu_vram_gb = Some(16 * 5120)

\* The lines that state a total above 0
TotalLines(ls) == SelectSeq(ls, LAMBDA l : l.total > 0)

\* C13: the rocm-smi probe sums the lines that mention "Total" and not "Used"
\* and carry a nonzero number, and counts them; when rocm-smi --showmeminfo
\* succeeded without such a line the probe still succeeds with device count
\* 1, backend ROCm, and VRAM the table's estimate for the parsed product name
\* when positive, unknown otherwise.
C13_RocmSumsTotalLines ==
    Returned_("detect_amd_gpu_rocm") =>
        LET n == Len(TotalLines(call.lines)) IN
        /\ ret.some /\ ret.val.has_gpu /\ ret.val.backend = "Rocm"
        /\ n > 0 => /\ ret.val.gpu_count = n
                    /\ ret.val.gpu_vram_gb = Some(5 * SumTotals(TotalLines(call.lines)))
        /\ n = 0 => /\ ret.val.gpu_count = 1
                    /\ ret.val.gpu_vram_gb = FallbackGb(RocmNameGb(call.name_output))

\* C13 witness: a report whose only lines are a used-memory line and an error
\* line, for a card the table lists with 24 GiB
C13_Witness ==
    /\ Returned_("detect_amd_gpu_rocm")
    /\ RocmText(call.lines) = <<"GPU[0] : vram Total Used Memory (B): 512",
                                "ERROR: GPU[0] : sysfs file not readable">>
    /\ RocmNameGb(call.name_output) = 24
    /\ ret.val.gpu_count = 1 /\ ret.val.gpu_vram_gb = Some(24 * 5120)

\* C14: however many calls of is_running_in_wsl the threads make, in whatever
\* interleaving, detect_running_in_wsl is begun at most once, its result is
\* stored at most once, and every call returns the stored value.
C14_DetectedOnceForAll ==
    /\ executions <= 1
    /\ IS_WSL.some => (once = "complete" /\ executions = 1)
    /\ \A t \in DOMAIN got : got[t].some => got[t] = IS_WSL
    /\ \A t \in DOMAIN thread_pc : \A u \in DOMAIN thread_pc :
          (t # u /\ thread_pc[t] \in {"detect", "store"})
              => thread_pc[u] \notin {"detect", "store"}

\* C14 witness: both threads have made all their calls and hold the value
\* stored by the one execution, which is no longer what the environment,
\* changed since, would give
C14_Witness ==
    /\ pc = "threads"
    /\ \A t \in Threads : calls[t] = MaxCalls /\ thread_pc[t] = "idle" /\ got[t] = IS_WSL
    /\ executions = 1 /\ env_changes = 1
    /\ IS_WSL.val # detect_running_in_wsl(target_os, env)

\* C15 as the specification states it: on Windows the wmic query is run
\* exactly when the PowerShell query cannot be launched or exits with a
\* nonzero status, and never when PowerShell exits successfully.
C15_WmicExactlyOnOutrightFailure ==
    (tried # <<>> /\ input.step = "windows" /\ target_os = "windows")
        => (input.wmic.status # "not_run"
              <=> input.out.status \in {"launch_fail", "nonzero_exit"})

\* The MiB each vm_stat report of the pool amounts to: (free + inactive +
\* purgeable) blocks of 256 pages times the page size (0: nothing usable)
VmStatMb(o) ==
    CASE o.status # "ok" -> 0
      [] o.lines = <<>> -> 0
      [] o.lines[1] = "Mach Virtual Memory Statistics: (page size of 4096 bytes)" -> 2048
      [] o.lines[1] = "Mach Virtual Memory Statistics:" -> 18432
      [] o.lines[2] = "Pages free:                               64." -> 512
      [] OTHER -> 0

\* C16: the fallback is entered only when available reads 0 and total is
\* positive, otherwise the reading is accepted unchanged; total - used is
\* returned exactly when 0 < used < total, vm_stat is consulted only when
\* that fails, and 80% of total is returned only when vm_stat gives nothing.
C16_FallbackOrder ==
    (input # Null /\ input.step = "metrics") =>
        IF ~(input.avail = 0 /\ input.total > 0)
        THEN /\ available_ram_gb = 5 * input.avail
             /\ input.used = None /\ input.vm_stat.status = "not_run"
        ELSE /\ input.used.some
             /\ IF 0 < input.used.val /\ input.used.val < input.total
                THEN /\ available_ram_gb = 5 * (input.total - input.used.val)
                     /\ input.vm_stat.status = "not_run"
                ELSE /\ input.vm_stat.status # "not_run"
                     /\ available_ram_gb =
                           (IF VmStatMb(input.vm_stat) > 0
                            THEN 5 * VmStatMb(input.vm_stat)
                            ELSE 4 * input.total)

\* C16 witness: used reads 0 and vm_stat cannot be launched, so 80% of the
\* 8 GiB total is returned
C16_Witness ==
    /\ input # Null /\ input.step = "metrics"
    /\ input.avail = 0 /\ input.total = 8192 /\ input.used = Some(0)
    /\ input.vm_stat.status = "launch_fail"
    /\ available_ram_gb = 4 * 8192

\* A listing as the kernel produces it: every file name is valid UTF-8
NamesReadable(es) == \A i \in 1..Len(es) : es[i].name.some

\* C17: on Linux the AMD scan of /sys/class/drm ignores every entry whose
\* name contains a hyphen, succeeds whenever a card entry without hyphen has
\* vendor 0x1002, and then reports presence with device count 1 and backend
\* Vulkan even when VRAM stays unknown (attribute missing or zero and no
\* positive estimate for the name); without such an entry it defers.
C17_AmdScanReportsPresence ==
    (Returned_("detect_amd_gpu_sysfs") /\ call.os = "linux" /\ call.dir.some
       /\ NamesReadable(call.dir.val)) =>
        LET cards == AmdCards(call.dir.val) IN
        IF cards = <<>> THEN ret = None
        ELSE /\ ret.some /\ ret.val.has_gpu
             /\ ret.val.gpu_count = 1 /\ ret.val.backend = "Vulkan"
             /\ ~ret.val.unified_memory
             /\ (VramAttrMb(cards[1]) = 0 /\ LspciNameGb(call.lspci) = 0)
                    => ret.val.gpu_vram_gb = None

\* C17 witness: a connector alias of an AMD card with a VRAM attribute comes
\* first, the card itself has no attribute file and lspci cannot be
\* launched: presence is reported with VRAM unknown
C17_Witness ==
    /\ Returned_("detect_amd_gpu_sysfs") /\ call.os = "linux"
    /\ call.dir = Some(<<[name |-> Some("card0-DP-1"), vendor |-> Some("0x1002"),
                          vram |-> Some("8192")],
                         [name |-> Some("card0"), vendor |-> Some("0x1002"),
                          vram |-> None]>>)
    /\ call.lspci.status = "launch_fail"
    /\ ret.some /\ ret.val.has_gpu /\ ret.val.gpu_vram_gb = None
    /\ ret.val.gpu_count = 1 /\ ret.val.backend = "Vulkan"

\* The lspci listing of the pool that names an Intel Arc device
ArcListed(lspci) ==
    lspci = Ok(<<"00:02.0 VGA compatible controller: Intel Corporation DG2 [Arc A770]">>)

\* The entries of a listing (none when read_dir failed)
Listed(dir) == IF dir.some THEN dir.val ELSE <<>>

AbsenceRecords == {Record(FALSE, None, None, 0, FALSE, be) : be \in {"CpuArm", "CpuX86"}}

C19_RecordWellFormed ==
    Done =>
        /\ has_gpu \in BOOLEAN /\ unified_memory \in BOOLEAN
        /\ ~has_gpu => /\ gpu_vram_gb = None /\ gpu_name = None
                       /\ gpu_count = 0 /\ ~unified_memory
                       /\ backend \in {"CpuArm", "CpuX86"}
        /\ has_gpu => /\ gpu_count >= 1
                      /\ backend \in GpuBackends
        /\ unified_memory => /\ backend = "Metal" /\ gpu_count = 1

\* C19 witness: the Windows query returned the record of an AMD adapter
C19_Witness ==
    /\ Done /\ LastTried.probe = "windows" /\ LastTried.ok
    /\ has_gpu = TRUE /\ gpu_count = 1 /\ backend = "Vulkan"
    /\ gpu_name = Some("AMD Radeon RX 6500 XT") /\ unified_memory = FALSE

\* C20 as the specification states it: a VRAM amount the Intel probe reports
\* was read from the attribute file of an entry whose vendor file was read
\* and holds 0x8086; an entry whose vendor file is missing or unreadable, or
\* holds another identifier, contributes nothing.
C20_VramOnlyFromIntelVendor ==
    (Returned_("detect_intel_gpu") /\ ret.some /\ ret.val.gpu_vram_gb.val > 0) =>
        \E i \in 1..Len(Listed(call.dir)) :
            /\ Listed(call.dir)[i].vendor = Some("0x8086")
            /\ ret.val.gpu_vram_gb = Some(5 * VramAttrMb(Listed(call.dir)[i]))

NvidiaKeywords == {"nvidia", "geforce", "quadro", "tesla", "rtx"}

HasNvidiaKeyword(name) ==
    \E k \in NvidiaKeywords : contains(to_lowercase(name), k)

HasAmdBrandWord(name) ==
    \E k \in {"amd", "radeon"} : contains(to_lowercase(name), k)

\* C21 as the specification states it: every name that holds an NVIDIA
\* keyword (nvidia, geforce, quadro, tesla, rtx) is classified Cuda, and every
\* name that holds "intel", no NVIDIA keyword and neither "amd" nor "radeon"
\* is classified Sycl, the PCI-style name "Intel Corporation UHD Graphics"
\* among them.
C21_VendorByKeyword ==
    Returned_("infer_gpu_backend(pci)") =>
        /\ HasNvidiaKeyword(call.name) => ret = "Cuda"
        /\ (/\ contains(to_lowercase(call.name), "intel")
            /\ ~HasNvidiaKeyword(call.name)
            /\ ~HasAmdBrandWord(call.name)) => ret = "Sycl"

====
